---- MODULE Spec2Model ----
(***************************************************************************)
(* Model of the watch orchestration, diagnostic store and diagnostic cache *)
(* of ts-diagnostics-mcp: TypeScriptWatchManager (core/watch-manager.ts),  *)
(* DiagnosticCache (utils/cache.ts) and the diagnostic conversion          *)
(* (types/index.ts).  The compiler session (ts.createWatchProgram) and the *)
(* LRU container (lru-cache, named export LRUCache, i.e. v10 semantics)    *)
(* are external collaborators; they are modelled by their contract.        *)
(*                                                                         *)
(* Time is counted in hours, so the one hour TTL is 1.                     *)
(* A JavaScript Map is an insertion-ordered sequence of [k, v] entries.    *)
(* The cache stores a reference to the very array that the store bucket    *)
(* holds; the only mutation of a bucket array (push) is followed by        *)
(* cache.set of the same array in the same handler, so that storing the    *)
(* array's value in both places is exact.                                  *)
(*                                                                         *)
(* Spec drives the manager (start, stop, compiler passes, queries, clears);*)
(* CacheSpec drives the exported DiagnosticCache alone (set, get, delete,  *)
(* clear).  The events the manager emits are given by what each handler    *)
(* emits for the state it is called in (startEmitted, stopEmitted).        *)
(*                                                                         *)
(* The functions that run before the manager is constructed are applied to *)
(* an input drawn from a bounded set: DetectSpec applies detectWorkspace   *)
(* (utils/workspace.ts) to a workspace, IgnoreSpec applies shouldIgnoreFile*)
(* and shouldIgnoreTsConfig (utils/cache.ts) to a path and a pattern list, *)
(* ConfigSpec applies loadConfig (utils/config.ts) and main (index.ts) to  *)
(* a workspace, a .ts-diagnostics.json and an environment.  A path or a    *)
(* pattern of the ignore filter is the sequence of its characters; a value *)
(* of a configuration object is a record named after its JavaScript type.  *)
(***************************************************************************)
EXTENDS Integers, Sequences, FiniteSets, TLC

\* ------------------------------------------------------------------ bounds
MaxEvents == 2            \* diagnostic events delivered by compiler sessions
MaxSessions == 2          \* compiler sessions ever created
MaxTime == 2              \* last value of the clock
MaxGets == 2              \* getFileDiagnostics may be called after fewer cache.get calls
MaxSets == 3              \* calls of DiagnosticCache.set when the cache is driven directly
MaxPosition == 2          \* last zero-based line and character of a compiler position
MaxCategory == 4          \* last category code a compiler diagnostic may carry
MaxProjects == 3          \* projects in a project list given to the constructor alone

\* ------------------------------------------------------- program constants
avgDiagnosticSize == 200  \* bytes per cache entry assumed by the constructor
TTL == 1                  \* 1000 * 60 * 60 ms, in hours

Undefined == "<undefined>"

\* ------------------------------------------------------------------ inputs
App == [configPath |-> "/app/tsconfig.json", name |-> "app"]
Lib == [configPath |-> "/lib/tsconfig.json", name |-> "lib"]
\* a project whose config file is not the tsconfig.json of its directory
Build == [configPath |-> "/lib/tsconfig.build.json", name |-> "build"]
\* a project whose config file does not exist
Gone == [configPath |-> "/gone/tsconfig.json", name |-> "gone"]
\* a project whose compiler session cannot be created
Broken == [configPath |-> "/broken/tsconfig.json", name |-> "broken"]

Files == {"/src/a.ts"}
QueryPaths == Files \cup {"unknown", "/src/never.ts"}
QueryNames == {"app", "lib", "missing"}

\* a ts.Diagnostic as the compiler session hands it over; line and character
\* are what file.getLineAndCharacterOfPosition(start || 0) answers
RawDiag(f, c) == [file |-> f, category |-> c, line |-> 2, character |-> 4, code |-> 2322]

\* the runs: constructor arguments (the project list, maxSizeMB * 1024 * 1024,
\* the ignore patterns that index.ts passes), the config files that exist,
\* the config files for which the creation of the compiler session raises,
\* and the diagnostics the compiler can report for the sources of the
\* workspace (a compiler warning, a compiler error, a category outside the
\* enumeration, an error without a file)
Setups ==
  { [configs |-> <<App>>, existing |-> {App.configPath}, maxBytes |-> 2000,
     failing |-> {}, ignorePatterns |-> <<>>,
     reports |-> {RawDiag("/src/a.ts", c) : c \in {0, 1, 4}}
                   \cup {RawDiag(Undefined, 1)}],
    [configs |-> <<App, Lib>>, existing |-> {App.configPath, Lib.configPath},
     maxBytes |-> 250, failing |-> {}, ignorePatterns |-> <<>>,
     reports |-> {RawDiag("/src/a.ts", 1), RawDiag(Undefined, 1)}],
    [configs |-> <<Lib, App>>, existing |-> {App.configPath, Lib.configPath},
     maxBytes |-> 2000, failing |-> {}, ignorePatterns |-> <<>>,
     reports |-> {RawDiag("/src/a.ts", 1)}],
    [configs |-> <<App, [configPath |-> App.configPath, name |-> "twin"]>>,
     existing |-> {App.configPath},
     maxBytes |-> 2000, failing |-> {}, ignorePatterns |-> <<>>,
     reports |-> {RawDiag("/src/a.ts", 1)}],
    [configs |-> <<Gone, Build>>, existing |-> {Build.configPath},
     maxBytes |-> 2000, failing |-> {}, ignorePatterns |-> <<Build.configPath>>,
     reports |-> {RawDiag("/src/a.ts", 1)}],
    [configs |-> <<Build, Gone>>, existing |-> {Build.configPath},
     maxBytes |-> 2000, failing |-> {}, ignorePatterns |-> <<Build.configPath>>,
     reports |-> {RawDiag("/src/a.ts", 1)}],
    [configs |-> <<App, Broken, Lib>>,
     existing |-> {App.configPath, Broken.configPath, Lib.configPath},
     maxBytes |-> 2000, failing |-> {Broken.configPath}, ignorePatterns |-> <<>>,
     reports |-> {RawDiag("/src/a.ts", 1)}] }

\* watch status messages of the compiler session
MsgStarting == "Starting compilation in watch mode..."
MsgChange == "File change detected. Starting incremental compilation..."
MsgFound(k) ==
  IF k = 1 THEN "Found 1 error. Watching for file changes."
  ELSE "Found " \o ToString(k) \o " errors. Watching for file changes."

\* messageText.includes(sub), for the two substrings the manager looks for
Includes(msg, sub) ==
  CASE sub = "Found 0 errors" -> msg = MsgFound(0)
    [] sub = "Watching for file changes" -> msg \notin {MsgStarting, MsgChange}
    [] OTHER -> FALSE

\* --------------------------------------------------------- sequence helpers
RECURSIVE Flatten(_)
Flatten(ss) == IF ss = <<>> THEN <<>> ELSE Head(ss) \o Flatten(Tail(ss))

Range(s) == {s[i] : i \in 1..Len(s)}

\* ----------------------------------------------------------- Map<K, V>
MapHas(m, k) == \E i \in 1..Len(m) : m[i].k = k
MapIndex(m, k) == CHOOSE i \in 1..Len(m) : m[i].k = k
MapGet(m, k) == m[MapIndex(m, k)].v
MapSet(m, k, v) ==
  IF MapHas(m, k) THEN [m EXCEPT ![MapIndex(m, k)] = [k |-> k, v |-> v]]
  ELSE Append(m, [k |-> k, v |-> v])
MapDelete(m, k) ==
  LET Other(e) == e.k # k IN SelectSeq(m, Other)
MapValues(m) == [i \in 1..Len(m) |-> m[i].v]
MapKeys(m) == [i \in 1..Len(m) |-> m[i].k]

\* ------------------------------------------------- types/index.ts
\* a conversion that passes a category it does not know on
convertDiagnosticCategoryOpen(category) ==
  CASE category = 0 -> "error"
    [] category = 1 -> "warning"
    [] category = 2 -> "suggestion"
    [] category = 3 -> "message"
    [] OTHER -> "unknown"

\* a conversion that takes a category it does not know for a message
convertDiagnosticCategoryDefaultMessage(category) ==
  CASE category = 0 -> "error"
    [] category = 1 -> "warning"
    [] category = 2 -> "suggestion"
    [] OTHER -> "message"

convertDiagnosticCategory(category) ==
  CASE category = 0 -> "error"
    [] category = 1 -> "warning"
    [] category = 2 -> "suggestion"
    [] category = 3 -> "message"
    [] OTHER -> "error"

convertDiagnostic(diagnostic) ==
  LET hasFile == diagnostic.file # Undefined
  IN [file |-> IF hasFile THEN diagnostic.file ELSE "unknown",
      line |-> IF hasFile /\ diagnostic.line # 0 THEN diagnostic.line + 1 ELSE 0,
      column |-> IF hasFile /\ diagnostic.character # 0
                 THEN diagnostic.character + 1 ELSE 0,
      category |-> convertDiagnosticCategory(diagnostic.category),
      code |-> diagnostic.code]

\* ------------------------------------------------- utils/cache.ts
\* new DiagnosticCache(maxSizeMB): the LRU holds at most maxItems entries
\* (max = 0 means no item bound in lru-cache when a ttl is given)
NewCache(maxBytes) ==
  [max |-> maxBytes \div avgDiagnosticSize, entries |-> <<>>,
   hits |-> 0, misses |-> 0, evictions |-> 0]

\* a cache without TTL
IsStaleNever(e, t) == FALSE

\* entries are kept least recently used first
IsStale(e, t) == t - e.start > TTL

\* DiagnosticCache.set: a new CacheEntry object replaces the old one
\* (dispose of the old value), or is inserted after evicting the least
\* recently used entry when the cache is full (dispose of the victim)
CacheSet(c, key, diagnostics, t) ==
  LET entry == [k |-> key, v |-> diagnostics, start |-> t, timestamp |-> t]
  IN IF MapHas(c.entries, key)
     THEN [c EXCEPT !.entries = Append(MapDelete(c.entries, key), entry),
                    !.evictions = @ + 1]
     ELSE IF c.max > 0 /\ Len(c.entries) >= c.max
     THEN [c EXCEPT !.entries = Append(Tail(c.entries), entry),
                    !.evictions = @ + 1]
     ELSE [c EXCEPT !.entries = Append(c.entries, entry)]

\* a get that leaves the entry it finds where it is in the recency order
CacheGetStateNoTouch(c, key, t) ==
  IF ~MapHas(c.entries, key) THEN [c EXCEPT !.misses = @ + 1]
  ELSE LET e == c.entries[MapIndex(c.entries, key)]
       IN IF IsStale(e, t)
          THEN [c EXCEPT !.entries = MapDelete(c.entries, key),
                         !.evictions = @ + 1, !.misses = @ + 1]
          ELSE [c EXCEPT !.entries[MapIndex(c.entries, key)].start = t,
                         !.hits = @ + 1]

\* a get that counts every entry it finds as a hit, expired or not
CacheGetStateCountsPresent(c, key, t) ==
  IF ~MapHas(c.entries, key) THEN [c EXCEPT !.misses = @ + 1]
  ELSE LET e == c.entries[MapIndex(c.entries, key)]
       IN IF IsStale(e, t)
          THEN [c EXCEPT !.entries = MapDelete(c.entries, key),
                         !.evictions = @ + 1, !.hits = @ + 1]
          ELSE [c EXCEPT !.entries = Append(MapDelete(c.entries, key),
                                            [e EXCEPT !.start = t]),
                         !.hits = @ + 1]

\* DiagnosticCache.get: the cache after the call
CacheGetState(c, key, t) ==
  IF ~MapHas(c.entries, key) THEN [c EXCEPT !.misses = @ + 1]
  ELSE LET e == c.entries[MapIndex(c.entries, key)]
       IN IF IsStale(e, t)
          THEN [c EXCEPT !.entries = MapDelete(c.entries, key),
                         !.evictions = @ + 1, !.misses = @ + 1]
          ELSE [c EXCEPT !.entries = Append(MapDelete(c.entries, key),
                                            [e EXCEPT !.start = t]),
                         !.hits = @ + 1]

\* DiagnosticCache.get: is an entry returned
CacheGetFound(c, key, t) ==
  MapHas(c.entries, key) /\ ~IsStale(c.entries[MapIndex(c.entries, key)], t)

\* a delete that leaves the entry
CacheDeleteForgotten(c, key) == c

CacheDelete(c, key) ==
  IF MapHas(c.entries, key)
  THEN [c EXCEPT !.entries = MapDelete(c.entries, key), !.evictions = @ + 1]
  ELSE c

\* a clear that leaves the entries
CacheClearForgotten(c) == c

CacheClear(c) ==
  [c EXCEPT !.entries = <<>>, !.evictions = @ + Len(c.entries)]

\* DiagnosticCache.invalidateByPattern(pattern), for a pattern that the keys
\* in matching pass: LRUCache.keys() yields the keys of the entries that are
\* not stale, and each one the pattern matches is deleted (dispose)
CacheInvalidateByPattern(c, matching, t) ==
  LET Deleted(e) == e.k \in matching /\ ~IsStale(e, t)
      Kept(e) == ~Deleted(e)
  IN [c EXCEPT !.entries = SelectSeq(c.entries, Kept),
               !.evictions = @ + Len(SelectSeq(c.entries, Deleted))]

\* a quotient of two naturals, as the fraction in lowest terms
RECURSIVE GCD(_, _)
GCD(a, b) == IF b = 0 THEN a ELSE GCD(b, a % b)
Quotient(n, d) == [num |-> n \div GCD(n, d), den |-> d \div GCD(n, d)]

\* DiagnosticCache.getStats
CacheStats(c) ==
  LET totalRequests == c.hits + c.misses
  IN [size |-> Len(c.entries), hits |-> c.hits, misses |-> c.misses,
      evictions |-> c.evictions,
      hitRate |-> IF totalRequests > 0 THEN Quotient(c.hits, totalRequests)
                  ELSE [num |-> 0, den |-> 1],
      itemCount |-> Len(c.entries)]

\* the keys from the least to the most recently used (LRUCache.keys(), which
\* getCachedFiles returns, yields them in the reverse order)
Recency(c) == MapKeys(c.entries)

\* ------------------------------------------- utils/cache.ts: ignore filter
\* A path or a pattern is the sequence of its characters.

\* str.replace(/[.+^${}()|[\]\\]/g, '\\$&')
RECURSIVE Escape(_)
Escape(str) ==
  LET special == {".", "+", "^", "$", "{", "}", "(", ")", "|", "[", "]", "\\"}
  IN IF str = <<>> THEN <<>>
     ELSE (IF Head(str) \in special THEN <<"\\", Head(str)>> ELSE <<Head(str)>>)
          \o Escape(Tail(str))

\* str.replace(/from/g, to) for a regular expression that matches the one
\* text from
RECURSIVE ReplaceAll(_, _, _)
ReplaceAll(str, from, to) ==
  IF Len(str) < Len(from) THEN str
  ELSE IF SubSeq(str, 1, Len(from)) = from
  THEN to \o ReplaceAll(SubSeq(str, Len(from) + 1, Len(str)), from, to)
  ELSE <<Head(str)>> \o ReplaceAll(Tail(str), from, to)

\* str.replace(/\{([^}]+)\}/g, (_, alternatives) => `(${...})`): a match
\* starts at a "{" that has a "}" at least two characters further on and
\* ends at the first such "}"
RECURSIVE ReplaceBraces(_)
ReplaceBraces(str) ==
  IF str = <<>> THEN <<>>
  ELSE LET closing == {j \in 3..Len(str) : str[j] = "}"}
           first == CHOOSE j \in closing : \A i \in closing : j <= i
           \* alternatives.split(',').join('|')
           SplitJoin(alternatives) ==
             [k \in 1..Len(alternatives) |->
                IF alternatives[k] = "," THEN "|" ELSE alternatives[k]]
       IN IF Head(str) = "{" /\ closing # {} /\ str[2] # "}"
          THEN <<"(">> \o SplitJoin(SubSeq(str, 2, first - 1)) \o <<")">>
               \o ReplaceBraces(SubSeq(str, first + 1, Len(str)))
          ELSE <<Head(str)>> \o ReplaceBraces(Tail(str))

\* the source globToRegex hands to new RegExp
globToRegexSource(globPattern) ==
  LET escaped == Escape(globPattern)
      doubleStar == ReplaceAll(escaped, <<"\\", "*", "\\", "*">>, <<".", "*">>)
      star == ReplaceAll(doubleStar, <<"\\", "*">>, <<"[", "^", "/", "]", "*">>)
      question == ReplaceAll(star, <<"?">>, <<"[", "^", "/", "]">>)
      braces == ReplaceBraces(question)
  IN <<"^">> \o braces \o <<"$">>

\* new RegExp(source) reads the source as a sequence of tokens: an escaped
\* character, the class [^/], a quantifier *, an alternation |, the
\* assertions ^ and $, the wildcard . and any other character for itself
RECURSIVE Tokens(_)
Tokens(source) ==
  IF source = <<>> THEN <<>>
  ELSE LET c == Head(source)
       IN IF c = "\\" /\ Len(source) >= 2
          THEN <<[kind |-> "char", ch |-> source[2]]>>
               \o Tokens(SubSeq(source, 3, Len(source)))
          ELSE IF Len(source) >= 4 /\ SubSeq(source, 1, 4) = <<"[", "^", "/", "]">>
          THEN <<[kind |-> "notSlash"]>> \o Tokens(SubSeq(source, 5, Len(source)))
          ELSE <<CASE c = "*" -> [kind |-> "star"]
                   [] c = "|" -> [kind |-> "alt"]
                   [] c = "^" -> [kind |-> "bol"]
                   [] c = "$" -> [kind |-> "eol"]
                   [] c = "." -> [kind |-> "any"]
                   [] OTHER -> [kind |-> "char", ch |-> c]>>
               \o Tokens(Tail(source))

\* the alternative that starts at token i matches str from position p on
RECURSIVE MatchFrom(_, _, _, _)
MatchFrom(tokens, i, str, p) ==
  LET AtomMatches(token, c) ==
        CASE token.kind = "char" -> c = token.ch
          [] token.kind = "notSlash" -> c # "/"
          [] token.kind = "any" -> TRUE
  IN
  IF i > Len(tokens) THEN TRUE
  ELSE IF tokens[i].kind = "alt" THEN TRUE
  ELSE IF tokens[i].kind = "bol" THEN p = 1 /\ MatchFrom(tokens, i + 1, str, p)
  ELSE IF tokens[i].kind = "eol"
  THEN p = Len(str) + 1 /\ MatchFrom(tokens, i + 1, str, p)
  ELSE IF i < Len(tokens) /\ tokens[i + 1].kind = "star"
  THEN \/ MatchFrom(tokens, i + 2, str, p)
       \/ /\ p <= Len(str)
          /\ AtomMatches(tokens[i], str[p])
          /\ MatchFrom(tokens, i, str, p + 1)
  ELSE /\ p <= Len(str)
       /\ AtomMatches(tokens[i], str[p])
       /\ MatchFrom(tokens, i + 1, str, p + 1)

\* what a call that returned v, or raised error, came to
Returned(v) == [returned |-> v]
Thrown(error) == [threw |-> error]
Threw(result) == "threw" \in DOMAIN result

\* matchesPattern(path, pattern)
matchesPattern(path, pattern) ==
  LET tokens == Tokens(globToRegexSource(pattern))
      \* new RegExp(source) raises SyntaxError (nothing to repeat) for a
      \* quantifier that follows no atom
      RegExpRaises ==
        \E k \in 1..Len(tokens) :
          /\ tokens[k].kind = "star"
          /\ (k = 1 \/ tokens[k - 1].kind \in {"star", "alt", "bol", "eol"})
      \* regexPattern.test(path), for a source new RegExp accepts
      starts == {1} \cup {k + 1 : k \in {j \in 1..Len(tokens) : tokens[j].kind = "alt"}}
      RegExpTest ==
        \E a \in starts : \E p \in 1..(Len(path) + 1) : MatchFrom(tokens, a, path, p)
  IN IF RegExpRaises THEN Thrown("SyntaxError") ELSE Returned(RegExpTest)

\* filePath.replace(/\\/g, '/')
NormalizeSeparators(filePath) ==
  [k \in 1..Len(filePath) |-> IF filePath[k] = "\\" THEN "/" ELSE filePath[k]]

\* the loop of shouldIgnoreFile over the patterns from the k-th on
RECURSIVE ignoreLoop(_, _, _)
ignoreLoop(normalizedPath, patterns, k) ==
  IF k > Len(patterns) THEN Returned(FALSE)
  ELSE LET matched == matchesPattern(normalizedPath, patterns[k])
       IN IF Threw(matched) THEN matched
          ELSE IF matched.returned THEN Returned(TRUE)
          ELSE ignoreLoop(normalizedPath, patterns, k + 1)

\* shouldIgnoreFile
shouldIgnoreFile(filePath, patterns) ==
  IF Len(patterns) = 0 THEN Returned(FALSE)
  ELSE ignoreLoop(NormalizeSeparators(filePath), patterns, 1)

\* str.includes(sub)
IncludesText(str, sub) ==
  \E p \in 1..(Len(str) - Len(sub) + 1) : SubSeq(str, p, p + Len(sub) - 1) = sub

NodeModules ==
  <<"n", "o", "d", "e", "_", "m", "o", "d", "u", "l", "e", "s">>

\* shouldIgnoreTsConfig
shouldIgnoreTsConfig(configPath, patterns) ==
  LET SlashTsconfigJson ==
        <<"/", "t", "s", "c", "o", "n", "f", "i", "g", ".", "j", "s", "o", "n">>
      \* str.endsWith(suffix)
      EndsWith(str, suffix) ==
        /\ Len(str) >= Len(suffix)
        /\ SubSeq(str, Len(str) - Len(suffix) + 1, Len(str)) = suffix
  IN IF EndsWith(configPath, SlashTsconfigJson) /\ ~IncludesText(configPath, NodeModules)
     THEN Returned(FALSE)
     ELSE shouldIgnoreFile(configPath, patterns)

\* mcp/server.ts: DEFAULT_IGNORE_PATTERNS
DEFAULT_IGNORE_PATTERNS ==
  <<<<"*", "*", "/", "n", "o", "d", "e", "_", "m", "o", "d", "u", "l", "e",
    "s", "/", "*", "*">>,
    <<"*", "*", "/", "d", "i", "s", "t", "/", "*", "*">>,
    <<"*", "*", "/", "b", "u", "i", "l", "d", "/", "*", "*">>,
    <<"*", "*", "/", ".", "g", "i", "t", "/", "*", "*">>,
    <<"*", "*", "/", "c", "o", "v", "e", "r", "a", "g", "e", "/", "*", "*">>,
    <<"*", "*", "/", ".", "n", "e", "x", "t", "/", "*", "*">>,
    <<"*", "*", "/", ".", "t", "u", "r", "b", "o", "/", "*", "*">>,
    <<"*", "*", "/", ".", "c", "a", "c", "h", "e", "/", "*", "*">>,
    <<"*", "*", "/", "o", "u", "t", "/", "*", "*">>,
    <<"*", "*", "/", "*", ".", "m", "i", "n", ".", "j", "s">>,
    <<"*", "*", "/", "*", ".", "b", "u", "n", "d", "l", "e", ".", "j", "s">>,
    <<"*", "*", "/", ".", "t", "s", "b", "u", "i", "l", "d", "i", "n", "f",
    "o">>>>

\* the characters of the config paths and patterns of the setups
Chars(str) ==
  CASE str = "/app/tsconfig.json" ->
         <<"/", "a", "p", "p", "/", "t", "s", "c", "o", "n", "f", "i", "g",
         ".", "j", "s", "o", "n">>
    [] str = "/lib/tsconfig.json" ->
         <<"/", "l", "i", "b", "/", "t", "s", "c", "o", "n", "f", "i", "g",
         ".", "j", "s", "o", "n">>
    [] str = "/lib/tsconfig.build.json" ->
         <<"/", "l", "i", "b", "/", "t", "s", "c", "o", "n", "f", "i", "g",
         ".", "b", "u", "i", "l", "d", ".", "j", "s", "o", "n">>
    [] str = "/gone/tsconfig.json" ->
         <<"/", "g", "o", "n", "e", "/", "t", "s", "c", "o", "n", "f", "i",
         "g", ".", "j", "s", "o", "n">>
    [] str = "/broken/tsconfig.json" ->
         <<"/", "b", "r", "o", "k", "e", "n", "/", "t", "s", "c", "o", "n",
         "f", "i", "g", ".", "j", "s", "o", "n">>

\* ------------------------------------------------- core/watch-manager.ts
VARIABLES
  configs,              \* this.configs
  existing,             \* config paths for which existsSync answers true
  reports,              \* diagnostics the compiler can report
  failing,              \* config paths for which ts.createWatchProgram raises
  ignorePatterns,       \* third constructor argument of index.ts
  watchers,             \* this.watchers: Map configPath -> session id
  diagnosticsByConfig,  \* Map configPath -> Map fileName -> Diagnostic[]
  cache,                \* this.cache
  isActive,             \* this.isActive
  lastCompilation,      \* this.lastCompilation, -1 while undefined
  sessions,             \* compiler sessions created so far, by id
  now,                  \* the clock
  nEvents,              \* number of diagnostic events delivered so far
  diagnosed,            \* file names of the diagnostics delivered so far
  input,                \* arguments and environment of a startup function
  output                \* what the startup function called on input produced

vars == <<configs, existing, reports, failing, ignorePatterns, watchers,
          diagnosticsByConfig, cache, isActive, lastCompilation, sessions, now,
          nEvents, diagnosed, input, output>>

setup == <<configs, existing, reports, failing, ignorePatterns>>

\* the startup functions are not called while the manager or the cache runs
call == <<input, output>>
NotCalled == [op |-> "none"]

\* a key that does not tell the files of a project apart
CacheKeyOfProject(configPath, fileName) == configPath

CacheKey(configPath, fileName) == configPath \o ":" \o fileName

\* the mutable state the operations work on (the events that the manager
\* emits have no listener that changes state: mcp/server.ts only logs them)
Manager ==
  [watchers |-> watchers, diagnosticsByConfig |-> diagnosticsByConfig,
   cache |-> cache, lastCompilation |-> lastCompilation, sessions |-> sessions,
   nEvents |-> nEvents, diagnosed |-> diagnosed]

Install(m) ==
  /\ watchers' = m.watchers
  /\ diagnosticsByConfig' = m.diagnosticsByConfig
  /\ cache' = m.cache
  /\ lastCompilation' = m.lastCompilation
  /\ sessions' = m.sessions
  /\ nEvents' = m.nEvents
  /\ diagnosed' = m.diagnosed

\* getAllDiagnosticsForConfig
getAllDiagnosticsForConfig(store, configPath) ==
  IF ~MapHas(store, configPath) THEN <<>>
  ELSE Flatten(MapValues(MapGet(store, configPath)))

CountCategory(diagnostics, category) ==
  LET Is(d) == d.category = category IN Len(SelectSeq(diagnostics, Is))

\* buildDiagnosticResult
buildDiagnosticResult(diagnostics, source, cacheHit, t) ==
  [timestamp |-> t,
   totalErrors |-> CountCategory(diagnostics, "error"),
   totalWarnings |-> CountCategory(diagnostics, "warning"),
   totalSuggestions |-> CountCategory(diagnostics, "suggestion"),
   totalMessages |-> CountCategory(diagnostics, "message"),
   diagnostics |-> diagnostics, cacheHit |-> cacheHit, source |-> source]

\* an onDiagnostic that caches the new diagnostic alone
onDiagnosticCachesLatest(m, config, diagnostic, t) ==
  LET converted == convertDiagnostic(diagnostic)
      fileName == converted.file
      seen == [m EXCEPT !.nEvents = @ + 1, !.diagnosed = @ \cup {fileName}]
  IN IF ~MapHas(m.diagnosticsByConfig, config.configPath) THEN seen
     ELSE LET diagnosticMap == MapGet(m.diagnosticsByConfig, config.configPath)
              old == IF MapHas(diagnosticMap, fileName)
                     THEN MapGet(diagnosticMap, fileName) ELSE <<>>
          IN [seen EXCEPT
                !.diagnosticsByConfig =
                   MapSet(@, config.configPath,
                          MapSet(diagnosticMap, fileName, Append(old, converted))),
                !.cache = CacheSet(@, CacheKey(config.configPath, fileName),
                                   <<converted>>, t)]

\* an onDiagnostic that stores every diagnostic in the first index
onDiagnosticFirstIndex(m, config, diagnostic, t) ==
  LET converted == convertDiagnostic(diagnostic)
      fileName == converted.file
      seen == [m EXCEPT !.nEvents = @ + 1, !.diagnosed = @ \cup {fileName}]
  IN IF m.diagnosticsByConfig = <<>> THEN seen
     ELSE LET configPath == m.diagnosticsByConfig[1].k
              diagnosticMap == m.diagnosticsByConfig[1].v
              old == IF MapHas(diagnosticMap, fileName)
                     THEN MapGet(diagnosticMap, fileName) ELSE <<>>
              fileDiagnostics == Append(old, converted)
          IN [seen EXCEPT
                !.diagnosticsByConfig =
                   MapSet(@, configPath,
                          MapSet(diagnosticMap, fileName, fileDiagnostics)),
                !.cache = CacheSet(@, CacheKey(configPath, fileName),
                                   fileDiagnostics, t)]

\* onDiagnostic(config, diagnostic) at time t
onDiagnostic(m, config, diagnostic, t) ==
  LET converted == convertDiagnostic(diagnostic)
      fileName == converted.file
      seen == [m EXCEPT !.nEvents = @ + 1, !.diagnosed = @ \cup {fileName}]
  IN IF ~MapHas(m.diagnosticsByConfig, config.configPath) THEN seen
     ELSE LET diagnosticMap == MapGet(m.diagnosticsByConfig, config.configPath)
              old == IF MapHas(diagnosticMap, fileName)
                     THEN MapGet(diagnosticMap, fileName) ELSE <<>>
              fileDiagnostics == Append(old, converted)
          IN [seen EXCEPT
                !.diagnosticsByConfig =
                   MapSet(@, config.configPath,
                          MapSet(diagnosticMap, fileName, fileDiagnostics)),
                !.cache = CacheSet(@, CacheKey(config.configPath, fileName),
                                   fileDiagnostics, t)]

\* onWatchStatusChange(config, diagnostic) at time t
onWatchStatusChange(m, config, messageText, t) ==
  IF Includes(messageText, "Found 0 errors")
     \/ Includes(messageText, "Watching for file changes")
  THEN [m EXCEPT !.lastCompilation = t]
  ELSE m

\* an onWatchStatusChange that counts the diagnostics of every project
onWatchStatusChangeEmittedForAll(m, config, messageText, t) ==
  IF Includes(messageText, "Found 0 errors")
     \/ Includes(messageText, "Watching for file changes")
  THEN LET diagnostics ==
             Flatten([i \in 1..Len(m.diagnosticsByConfig) |->
                        getAllDiagnosticsForConfig(m.diagnosticsByConfig,
                                                   m.diagnosticsByConfig[i].k)])
       IN <<[event |-> "compilation-complete", config |-> config.name,
             timestamp |-> t,
             errorCount |-> CountCategory(diagnostics, "error"),
             warningCount |-> CountCategory(diagnostics, "warning")]>>
  ELSE <<>>

\* the events onWatchStatusChange(config, diagnostic) emits at time t
onWatchStatusChangeEmitted(m, config, messageText, t) ==
  IF Includes(messageText, "Found 0 errors")
     \/ Includes(messageText, "Watching for file changes")
  THEN LET diagnostics ==
             getAllDiagnosticsForConfig(m.diagnosticsByConfig, config.configPath)
       IN <<[event |-> "compilation-complete", config |-> config.name,
             timestamp |-> t,
             errorCount |-> CountCategory(diagnostics, "error"),
             warningCount |-> CountCategory(diagnostics, "warning")]>>
  ELSE <<>>

\* ------------------------------------------------- the compiler session
\* ts.DiagnosticCategory: Warning = 0, Error = 1, Suggestion = 2, Message = 3;
\* the session's "Found N errors" counts the diagnostics of category Error
IsCompilerError(diagnostic) == diagnostic.category = 1

\* a session that has just been created for configs[i]
NewSession(i) == [cfg |-> i, open |-> TRUE]

\* the host hands the diagnostics of a pass to onDiagnostic, one by one
RECURSIVE reportDiagnostics(_, _, _, _)
reportDiagnostics(m, config, diagnostics, t) ==
  IF diagnostics = <<>> THEN m
  ELSE reportDiagnostics(onDiagnostic(m, config, Head(diagnostics), t),
                         config, Tail(diagnostics), t)

\* one pass of session id, which the compiler runs synchronously: the status
\* message that opens it, the diagnostics of the program, and
\* "Found N errors. Watching for file changes."
sessionPass(m, id, opening, diagnostics, t) ==
  LET config == configs[m.sessions[id].cfg]
      m1 == onWatchStatusChange(m, config, opening, t)
      m2 == reportDiagnostics(m1, config, diagnostics, t)
      errors == Len(SelectSeq(diagnostics, IsCompilerError))
  IN onWatchStatusChange(m2, config, MsgFound(errors), t)

\* the calls of onWatchStatusChange in that pass: the state each is made in,
\* the project and the message
statusCalls(m, id, opening, diagnostics, t) ==
  LET config == configs[m.sessions[id].cfg]
      m1 == onWatchStatusChange(m, config, opening, t)
      m2 == reportDiagnostics(m1, config, diagnostics, t)
      errors == Len(SelectSeq(diagnostics, IsCompilerError))
  IN {[m |-> m, config |-> config, messageText |-> opening],
      [m |-> m2, config |-> config, messageText |-> MsgFound(errors)]}

\* ts.createWatchProgram(host): the session is created and runs its first
\* pass before it returns, reporting through the host's two callbacks
createWatchProgram(m, i, diagnostics, t) ==
  sessionPass([m EXCEPT !.sessions = Append(@, NewSession(i))],
              Len(m.sessions) + 1, MsgStarting, diagnostics, t)

\* a startWatchingConfig that does not look for the config file
startWatchingConfigUnchecked(m, i, diagnostics, t) ==
  LET configPath == configs[i].configPath
      m1 == createWatchProgram(m, i, diagnostics, t)
  IN [m1 EXCEPT
        !.watchers = MapSet(@, configPath, Len(m1.sessions)),
        !.diagnosticsByConfig = MapSet(@, configPath, <<>>)]

\* startWatchingConfig(config) for config = configs[i]
startWatchingConfig(m, i, diagnostics, t) ==
  LET configPath == configs[i].configPath
  IN IF configPath \notin existing THEN m
     ELSE LET m1 == createWatchProgram(m, i, diagnostics, t)
          IN [m1 EXCEPT
                !.watchers = MapSet(@, configPath, Len(m1.sessions)),
                !.diagnosticsByConfig = MapSet(@, configPath, <<>>)]

\* startWatchingConfig(configs[i]) raises: the config file exists and the
\* creation of the compiler session throws (nothing catches it)
createRaises(i) ==
  configs[i].configPath \in existing /\ configs[i].configPath \in failing

\* the loop of start() from configs[i] on; first[j] is what the session of
\* configs[j] reports while it is created; an exception ends the loop
RECURSIVE startFrom(_, _, _, _)
startFrom(m, i, first, t) ==
  IF i > Len(configs) THEN m
  ELSE IF createRaises(i) THEN m
  ELSE startFrom(startWatchingConfig(m, i, first[i], t), i + 1, first, t)

\* start() on an inactive manager leaves by an exception
startRaises == \E i \in 1..Len(configs) : createRaises(i)

\* what a session may report in one pass
Passes ==
  UNION {[1..n -> reports] : n \in 0..(MaxEvents - nEvents)}

TotalLen(first) == Len(Flatten(first))

ExistingConfigs == {i \in 1..Len(configs) : configs[i].configPath \in existing}

\* the projects for which a start() creates a session
Opening == {i \in ExistingConfigs : \A j \in 1..i : ~createRaises(j)}

\* the events start() and stop() emit when called with isActive = active
startEmitted(active) ==
  IF active \/ startRaises THEN <<>>
  ELSE <<[event |-> "started", configs |-> Len(configs)]>>
\* a stop() that emits whatever the state
stopEmittedAlways(active) == <<[event |-> "stopped"]>>

stopEmitted(active) ==
  IF active THEN <<[event |-> "stopped"]>> ELSE <<>>

\* ---------------------------------------------------------------- actions
Init ==
  /\ \E s \in Setups :
       /\ configs = s.configs
       /\ existing = s.existing
       /\ reports = s.reports
       /\ failing = s.failing
       /\ ignorePatterns = s.ignorePatterns
       /\ cache = NewCache(s.maxBytes)
  /\ watchers = <<>>
  /\ diagnosticsByConfig = <<>>
  /\ isActive = FALSE
  /\ lastCompilation = -1
  /\ sessions = <<>>
  /\ now = 0
  /\ nEvents = 0
  /\ diagnosed = {}
  /\ input = NotCalled
  /\ output = NotCalled

\* start() on an inactive manager, the session of configs[i] reporting
\* first[i] while it is created
StartWith(first) ==
  /\ ~isActive
  /\ Len(sessions) + Cardinality(Opening) <= MaxSessions
  /\ \A i \in 1..Len(configs) : i \notin Opening => first[i] = <<>>
  /\ nEvents + TotalLen(first) <= MaxEvents
  /\ Install(startFrom(Manager, 1, first, now))
  /\ isActive' = TRUE
  /\ UNCHANGED <<setup, call, now>>

\* a start() that does not look at isActive
StartUnguarded ==
  \E first \in [1..Len(configs) -> Passes] :
    /\ Len(sessions) + Cardinality(Opening) <= MaxSessions
    /\ \A i \in 1..Len(configs) : i \notin Opening => first[i] = <<>>
    /\ nEvents + TotalLen(first) <= MaxEvents
    /\ Install(startFrom(Manager, 1, first, now))
    /\ isActive' = TRUE
    /\ UNCHANGED <<setup, call, now>>

\* start()
Start ==
  IF isActive
  THEN UNCHANGED vars
  ELSE \E first \in [1..Len(configs) -> Passes] : StartWith(first)

\* stop()
Stop ==
  /\ IF ~isActive
     THEN UNCHANGED <<watchers, diagnosticsByConfig, cache, lastCompilation,
                      sessions, nEvents, diagnosed>>
     ELSE LET closed == Range(MapValues(watchers))
              m == [Manager EXCEPT
                      !.sessions = [id \in 1..Len(sessions) |->
                                      IF id \in closed
                                      THEN [sessions[id] EXCEPT !.open = FALSE]
                                      ELSE sessions[id]],
                      !.watchers = <<>>]
          IN Install(m)
  /\ isActive' = FALSE
  /\ UNCHANGED <<setup, call, now>>

\* a file changes and session id runs an incremental pass: the host calls
\* onWatchStatusChange, onDiagnostic for each diagnostic, onWatchStatusChange
Pass(id, diagnostics) ==
  /\ sessions[id].open
  /\ Install(sessionPass(Manager, id, MsgChange, diagnostics, now))
  /\ UNCHANGED <<setup, call, isActive, now>>

\* time passes
Tick ==
  /\ now < MaxTime
  /\ now' = now + 1
  /\ UNCHANGED <<setup, call, watchers, diagnosticsByConfig, cache, isActive,
                 lastCompilation, sessions, nEvents, diagnosed>>


Null == [null |-> TRUE]

\* the loop of getFileDiagnostics from configs[i] on: the cache after the
\* lookups and the diagnostics collected
RECURSIVE getFileLoop(_, _, _, _, _)
getFileLoop(c, i, filePath, diagnostics, t) ==
  IF i > Len(configs) THEN [cache |-> c, diagnostics |-> diagnostics]
  ELSE LET cacheKey == CacheKey(configs[i].configPath, filePath)
           cached == IF CacheGetFound(c, cacheKey, t)
                     THEN MapGet(c.entries, cacheKey) ELSE <<>>
       IN getFileLoop(CacheGetState(c, cacheKey, t), i + 1, filePath,
                      diagnostics \o cached, t)

\* getFileDiagnostics(filePath): the value returned with cache c at time t
getFileDiagnosticsOf(c, filePath, t) ==
  LET r == getFileLoop(c, 1, filePath, <<>>, t)
  IN buildDiagnosticResult(r.diagnostics, filePath, Len(r.diagnostics) > 0, t)

\* getFileDiagnostics(filePath): the value returned in the current state
getFileDiagnostics(filePath) == getFileDiagnosticsOf(cache, filePath, now)

\* getFileDiagnostics(filePath): what the call does to the cache
GetFileDiagnostics(filePath) ==
  /\ cache.hits + cache.misses < MaxGets
  /\ LET r == getFileLoop(cache, 1, filePath, <<>>, now)
     IN Install([Manager EXCEPT !.cache = r.cache])
  /\ UNCHANGED <<setup, call, isActive, now>>

\* getAllDiagnostics(): the value returned with store at time t
getAllDiagnosticsOf(store, t) ==
  LET PerConfig == [i \in 1..Len(store) |->
                      getAllDiagnosticsForConfig(store, store[i].k)]
  IN buildDiagnosticResult(Flatten(PerConfig), "all", TRUE, t)

\* getAllDiagnostics(): the value returned in the current state
getAllDiagnostics == getAllDiagnosticsOf(diagnosticsByConfig, now)

\* a getPackageDiagnostics that knows only the projects that have an index
getPackageDiagnosticsOfWatched(store, packageName, t) ==
  LET found == {i \in 1..Len(configs) :
                  /\ configs[i].name = packageName
                  /\ MapHas(store, configs[i].configPath)}
  IN IF found = {} THEN Null
     ELSE LET config == configs[CHOOSE i \in found : \A j \in found : i <= j]
          IN buildDiagnosticResult(
               getAllDiagnosticsForConfig(store, config.configPath),
               packageName, TRUE, t)

\* getPackageDiagnostics(packageName): the value returned with store at time t
getPackageDiagnosticsOf(store, packageName, t) ==
  LET found == {i \in 1..Len(configs) :
                  "name" \in DOMAIN configs[i] /\ configs[i].name = packageName}
  IN IF found = {} THEN Null
     ELSE LET config == configs[CHOOSE i \in found : \A j \in found : i <= j]
          IN buildDiagnosticResult(
               getAllDiagnosticsForConfig(store, config.configPath),
               packageName, TRUE, t)

\* getPackageDiagnostics(packageName): the value returned in the current state
getPackageDiagnostics(packageName) ==
  getPackageDiagnosticsOf(diagnosticsByConfig, packageName, now)

\* getPackages(): c.name || c.configPath takes the config path for a config
\* without a name and for one whose name is the empty string
getPackages ==
  [i \in 1..Len(configs) |->
     IF "name" \in DOMAIN configs[i] /\ configs[i].name # ""
     THEN configs[i].name ELSE configs[i].configPath]

\* the loop of clearFileDiagnostics from entry i of diagnosticsByConfig on
RECURSIVE clearFileLoop(_, _, _)
clearFileLoop(m, i, filePath) ==
  IF i > Len(m.diagnosticsByConfig) THEN m
  ELSE LET configPath == m.diagnosticsByConfig[i].k
       IN clearFileLoop(
            [m EXCEPT !.diagnosticsByConfig[i].v = MapDelete(@, filePath),
                      !.cache = CacheDelete(@, CacheKey(configPath, filePath))],
            i + 1, filePath)

\* clearFileDiagnostics(filePath)
ClearFileDiagnostics(filePath) ==
  /\ Install(clearFileLoop(Manager, 1, filePath))
  /\ UNCHANGED <<setup, call, isActive, now>>

\* clearAllDiagnostics()
ClearAllDiagnostics ==
  /\ Install([Manager EXCEPT
                !.diagnosticsByConfig =
                   [i \in 1..Len(diagnosticsByConfig) |->
                      [diagnosticsByConfig[i] EXCEPT !.v = <<>>]],
                !.cache = CacheClear(@)])
  /\ UNCHANGED <<setup, call, isActive, now>>

Next ==
  \/ Start
  \/ Stop
  \/ \E id \in 1..Len(sessions) : \E ds \in Passes : Pass(id, ds)
  \/ Tick
  \/ \E p \in QueryPaths : GetFileDiagnostics(p)
  \/ \E p \in QueryPaths : ClearFileDiagnostics(p)
  \/ ClearAllDiagnostics

Spec == Init /\ [][Next]_vars

\* ------------------------------------------- the cache driven directly
\* DiagnosticCache is exported: a second specification calls its methods
\* without the manager, with keys of the manager's form
CacheKeys == {CacheKey(App.configPath, f) : f \in {"/src/a.ts", "/src/b.ts", "/src/c.ts"}}

managerVars == <<setup, call, watchers, diagnosticsByConfig, isActive, lastCompilation,
                 sessions, nEvents, diagnosed>>

\* cache.set(key, diagnostics); every set leaves one more entry in the cache
\* or one more entry disposed of, which bounds the number of calls
CacheSetOp(key) ==
  /\ Len(cache.entries) + cache.evictions < MaxSets
  /\ cache' = CacheSet(cache, key, <<convertDiagnostic(RawDiag("/src/a.ts", 1))>>, now)
  /\ UNCHANGED <<managerVars, now>>

\* cache.get(key)
CacheGetOp(key) ==
  /\ cache.hits + cache.misses < MaxGets
  /\ cache' = CacheGetState(cache, key, now)
  /\ UNCHANGED <<managerVars, now>>

\* cache.delete(key)
CacheDeleteOp(key) ==
  /\ cache' = CacheDelete(cache, key)
  /\ UNCHANGED <<managerVars, now>>

\* cache.clear()
CacheClearOp ==
  /\ cache' = CacheClear(cache)
  /\ UNCHANGED <<managerVars, now>>

\* cache.invalidateByPattern(pattern)
CacheInvalidateOp(matching) ==
  /\ cache' = CacheInvalidateByPattern(cache, matching, now)
  /\ UNCHANGED <<managerVars, now>>

CacheInit ==
  \* maxSizeMB * 1024 * 1024 of the constructor: room for 0, 1 and 2 entries
  /\ \E maxBytes \in {0, avgDiagnosticSize, 2 * avgDiagnosticSize} :
       cache = NewCache(maxBytes)
  /\ configs = <<>> /\ existing = {} /\ reports = {} /\ failing = {}
  /\ ignorePatterns = <<>>
  /\ watchers = <<>>
  /\ diagnosticsByConfig = <<>>
  /\ isActive = FALSE
  /\ lastCompilation = -1
  /\ sessions = <<>>
  /\ now = 0
  /\ nEvents = 0
  /\ diagnosed = {}
  /\ input = NotCalled
  /\ output = NotCalled

CacheSpec ==
  CacheInit
  /\ [][\/ \E key \in CacheKeys : CacheSetOp(key)
        \/ \E key \in CacheKeys : CacheGetOp(key)
        \/ \E key \in CacheKeys : CacheDeleteOp(key)
        \/ CacheClearOp
        \/ \E matching \in SUBSET CacheKeys : CacheInvalidateOp(matching)
        \/ Tick]_vars

\* ------------------------------------------------- utils/workspace.ts
\* A workspace is what detectWorkspace reads below projectRoot: the four
\* markers and the package directories.  A file is a record whose state is
\* "absent", "malformed" (not JSON) or "ok"; an optional field of a manifest
\* is a field the record may lack.
Root == "/ws"

\* join(a, b) for the relative names of the model
join(a, b) == a \o "/" \o b

Absent == [state |-> "absent"]
Malformed == [state |-> "malformed"]

\* the package directories of the model: packages/a, packages/b, apps/c
PackageDir ==
  [a |-> [parent |-> "packages", base |-> "a"],
   b |-> [parent |-> "packages", base |-> "b"],
   c |-> [parent |-> "apps", base |-> "c"]]

\* the directory below projectRoot, and its last segment
DirPath(d) == join(join(Root, d.parent), d.base)

\* the workspaces: pnpm-workspace.yaml without a packages list or listing
\* packages/*; the root package.json without workspaces, or with them and
\* with or without packageManager; rush.json with two projects; lerna.json
\* with or without packages; and the package directories, in the order in
\* which a scan meets them, each with or without tsconfig.json and with a
\* package.json that has a name, has none, is not JSON or is missing
Workspaces ==
  LET manifests(name) == {Malformed, [state |-> "ok"], [state |-> "ok", name |-> name]}
  IN [pnpm : {Absent, [state |-> "ok"], [state |-> "ok", packages |-> <<"packages/*">>]},
      packageJson :
        {Absent, Malformed, [state |-> "ok"],
         [state |-> "ok", workspaces |-> <<"packages/*">>],
         [state |-> "ok", workspaces |-> <<"packages/*">>, packageManager |-> "npm@10.2.0"],
         [state |-> "ok", workspaces |-> <<"apps/*">>, packageManager |-> "yarn@3.6.0"]},
      rush :
        {Absent, Malformed,
         [state |-> "ok",
          projects |-> <<[projectFolder |-> "apps/c", packageName |-> "@rush/c"],
                         [projectFolder |-> "packages/b", packageName |-> "@rush/b"]>>]},
      lerna :
        {Absent, Malformed, [state |-> "ok"], [state |-> "ok", packages |-> <<"apps/*">>]},
      dirs :
        {<<[dir |-> PackageDir.a, tsconfig |-> ta, manifest |-> ma],
           [dir |-> PackageDir.b, tsconfig |-> tb,
            manifest |-> [state |-> "ok", name |-> "@w/b"]],
           [dir |-> PackageDir.c, tsconfig |-> TRUE, manifest |-> mc]>> :
           ta \in BOOLEAN, tb \in BOOLEAN, ma \in manifests("@w/a"),
           mc \in {Absent, [state |-> "ok", name |-> "@w/c"]}},
      rootTsconfig : BOOLEAN]

existsSyncFile(file) == file.state # "absent"

\* glob(patterns.map(p => `${p}/package.json`), {cwd: projectRoot}) of
\* fast-glob: the package.json files that exist one level below the
\* directory a pattern names
glob(ws, patterns) ==
  SelectSeq(ws.dirs, LAMBDA e :
    /\ existsSyncFile(e.manifest)
    /\ \E k \in 1..Len(patterns) : patterns[k] = e.dir.parent \o "/*")

\* one TSProjectConfig of the loop over packagePaths
packageConfig(e) ==
  [configPath |-> join(DirPath(e.dir), "tsconfig.json"),
   name |-> IF "name" \in DOMAIN e.manifest THEN e.manifest.name ELSE e.dir.base,
   rootDir |-> DirPath(e.dir)]

\* a loop that takes every package whose package.json parses
packageConfigsUnchecked(packagePaths) ==
  LET kept == SelectSeq(packagePaths, LAMBDA e : e.manifest.state = "ok")
  IN [k \in 1..Len(kept) |-> packageConfig(kept[k])]

\* the loop over packagePaths of the pnpm, npm and lerna detectors: a package
\* without tsconfig.json is passed over, and so is one whose package.json
\* does not parse
packageConfigs(packagePaths) ==
  LET kept == SelectSeq(packagePaths, LAMBDA e :
                e.tsconfig /\ e.manifest.state = "ok")
  IN [k \in 1..Len(kept) |-> packageConfig(kept[k])]

\* detectPnpmWorkspaces
detectPnpmWorkspaces(ws) ==
  IF "packages" \notin DOMAIN ws.pnpm THEN <<>>
  ELSE packageConfigs(glob(ws, ws.pnpm.packages))

\* detectNpmWorkspaces
detectNpmWorkspaces(ws, workspaces) == packageConfigs(glob(ws, workspaces))

\* the directory entry a projectFolder of rush.json names
DirOfFolder(ws, folder) ==
  CHOOSE k \in 1..Len(ws.dirs) :
    join(ws.dirs[k].dir.parent, ws.dirs[k].dir.base) = folder

\* detectRushWorkspaces, for a rush.json that parses
detectRushWorkspaces(ws) ==
  LET kept == SelectSeq(ws.rush.projects, LAMBDA project :
                ws.dirs[DirOfFolder(ws, project.projectFolder)].tsconfig)
  IN [k \in 1..Len(kept) |->
        [configPath |-> join(join(Root, kept[k].projectFolder), "tsconfig.json"),
         name |-> kept[k].packageName,
         rootDir |-> join(Root, kept[k].projectFolder)]]

\* detectLernaWorkspaces, for a lerna.json that parses
detectLernaWorkspaces(ws) ==
  LET patterns == IF "packages" \in DOMAIN ws.lerna THEN ws.lerna.packages
                  ELSE <<"packages/*">>
  IN packageConfigs(glob(ws, patterns))

Detected(type, packages) ==
  [type |-> type, packages |-> packages, rootConfig |-> join(Root, "tsconfig.json")]

\* detectWorkspace past the probe for pnpm-workspace.yaml; JSON.parse raises
\* SyntaxError on a file that is not JSON, and only the loop over
\* packagePaths catches it
detectWithoutPnpm(ws) ==
  LET \* packageManager.startsWith('yarn'), for the package managers of the model
      StartsWithYarn(packageManager) == packageManager \in {"yarn@3.6.0"}
  IN
  IF existsSyncFile(ws.packageJson) /\ ws.packageJson = Malformed
  THEN Thrown("SyntaxError")
  ELSE IF existsSyncFile(ws.packageJson) /\ "workspaces" \in DOMAIN ws.packageJson
  THEN Detected(IF /\ "packageManager" \in DOMAIN ws.packageJson
                   /\ StartsWithYarn(ws.packageJson.packageManager)
                THEN "yarn" ELSE "npm",
                detectNpmWorkspaces(ws, ws.packageJson.workspaces))
  ELSE IF existsSyncFile(ws.rush)
  THEN IF ws.rush = Malformed THEN Thrown("SyntaxError")
       ELSE Detected("rush", detectRushWorkspaces(ws))
  ELSE IF existsSyncFile(ws.lerna)
  THEN IF ws.lerna = Malformed THEN Thrown("SyntaxError")
       ELSE Detected("lerna", detectLernaWorkspaces(ws))
  ELSE [type |-> "single",
        packages |-> <<[configPath |-> join(Root, "tsconfig.json"),
                        name |-> "root", rootDir |-> Root]>>]

\* a detection that asks package.json for workspaces before it looks for
\* pnpm-workspace.yaml
detectWorkspaceManifestFirst(ws) ==
  IF "workspaces" \in DOMAIN ws.packageJson THEN detectWithoutPnpm(ws)
  ELSE IF existsSyncFile(ws.pnpm) THEN Detected("pnpm", detectPnpmWorkspaces(ws))
  ELSE detectWithoutPnpm(ws)

\* detectWorkspace(projectRoot)
detectWorkspace(ws) ==
  IF existsSyncFile(ws.pnpm) THEN Detected("pnpm", detectPnpmWorkspaces(ws))
  ELSE detectWithoutPnpm(ws)

\* ------------------------------------- detection applied to a workspace
\* the manager and the cache, not constructed
Unused ==
  /\ configs = <<>> /\ existing = {} /\ reports = {} /\ failing = {}
  /\ ignorePatterns = <<>>
  /\ cache = NewCache(0)
  /\ watchers = <<>>
  /\ diagnosticsByConfig = <<>>
  /\ isActive = FALSE
  /\ lastCompilation = -1
  /\ sessions = <<>>
  /\ now = 0
  /\ nEvents = 0
  /\ diagnosed = {}

\* await detectWorkspace(projectRoot)
DetectWorkspace ==
  /\ output = NotCalled
  /\ output' = [op |-> "detectWorkspace", result |-> detectWorkspace(input)]
  /\ UNCHANGED <<setup, input, watchers, diagnosticsByConfig, cache, isActive,
                 lastCompilation, sessions, now, nEvents, diagnosed>>

DetectInit ==
  /\ Unused
  /\ input \in Workspaces
  /\ output = NotCalled

DetectSpec ==
  DetectInit
  /\ [][DetectWorkspace]_vars

\* ------------------------------------------- the ignore filter applied
\* the paths the filter is asked about
FilterPath ==
  [nodeModulesFile |->
     <<"a", "/", "n", "o", "d", "e", "_", "m", "o", "d", "u", "l", "e", "s",
     "/", "b", ".", "t", "s">>,
   nodeModulesConfig |->
     <<"/", "w", "s", "/", "n", "o", "d", "e", "_", "m", "o", "d", "u", "l",
     "e", "s", "/", "p", "k", "g", "/", "t", "s", "c", "o", "n", "f", "i",
     "g", ".", "j", "s", "o", "n">>,
   srcA |->
     <<"s", "r", "c", "/", "a", ".", "t", "s">>,
   srcAb |->
     <<"s", "r", "c", "/", "a", "b", ".", "t", "s">>,
   srcLibA |->
     <<"s", "r", "c", "/", "l", "i", "b", "/", "a", ".", "t", "s">>,
   distA |->
     <<"d", "i", "s", "t", "/", "a", ".", "j", "s">>,
   rootConfig |->
     <<"/", "w", "s", "/", "t", "s", "c", "o", "n", "f", "i", "g", ".", "j",
     "s", "o", "n">>,
   packageConfig |->
     <<"/", "w", "s", "/", "p", "a", "c", "k", "a", "g", "e", "s", "/", "a",
     "/", "t", "s", "c", "o", "n", "f", "i", "g", ".", "j", "s", "o", "n">>,
   rootBuildConfig |->
     <<"/", "w", "s", "/", "t", "s", "c", "o", "n", "f", "i", "g", ".", "b",
     "u", "i", "l", "d", ".", "j", "s", "o", "n">>,
   packageBuildConfig |->
     <<"/", "w", "s", "/", "p", "a", "c", "k", "a", "g", "e", "s", "/", "a",
     "/", "t", "s", "c", "o", "n", "f", "i", "g", ".", "b", "u", "i", "l",
     "d", ".", "j", "s", "o", "n">>,
   windowsSrcA |->
     <<"s", "r", "c", "\\", "a", ".", "t", "s">>,
   srcDotTs |->
     <<"s", "r", "c", "/", ".", "t", "s">>]

\* glob patterns of a user
FilterPattern ==
  [everyPath |->
     <<"*", "*">>,
   srcStarTs |->
     <<"s", "r", "c", "/", "*", ".", "t", "s">>,
   srcQuestionTs |->
     <<"s", "r", "c", "/", "?", ".", "t", "s">>,
   srcBraces |->
     <<"s", "r", "c", "/", "a", ".", "{", "t", "s", ",", "j", "s", "}">>,
   packageQuestion |->
     <<"/", "w", "s", "/", "p", "a", "c", "k", "a", "g", "e", "s", "/", "?",
     "/", "t", "s", "c", "o", "n", "f", "i", "g", ".", "j", "s", "o", "n">>,
   srcEverything |->
     <<"s", "r", "c", "/", "*", "*">>]

\* shouldIgnoreFile(path, patterns)
ShouldIgnoreFile ==
  /\ output = NotCalled
  /\ output' = [op |-> "shouldIgnoreFile",
                result |-> shouldIgnoreFile(input.path, input.patterns)]
  /\ UNCHANGED <<setup, input, watchers, diagnosticsByConfig, cache, isActive,
                 lastCompilation, sessions, now, nEvents, diagnosed>>

\* shouldIgnoreTsConfig(path, patterns)
ShouldIgnoreTsConfig ==
  /\ output = NotCalled
  /\ output' = [op |-> "shouldIgnoreTsConfig",
                result |-> shouldIgnoreTsConfig(input.path, input.patterns)]
  /\ UNCHANGED <<setup, input, watchers, diagnosticsByConfig, cache, isActive,
                 lastCompilation, sessions, now, nEvents, diagnosed>>

\* every path, under each list of ignore patterns: none, the defaults, the
\* defaults followed by a user pattern, and user patterns alone (glob
\* patterns and whole paths)
IgnoreInit ==
  /\ Unused
  /\ input \in
       [path : {FilterPath[n] : n \in DOMAIN FilterPath},
        patterns :
          {<<>>, DEFAULT_IGNORE_PATTERNS,
           DEFAULT_IGNORE_PATTERNS \o <<FilterPath.srcA>>,
           <<FilterPattern.everyPath>>, <<FilterPattern.srcStarTs>>,
           <<FilterPattern.srcQuestionTs>>, <<FilterPattern.srcBraces>>,
           <<FilterPattern.srcEverything>>,
           <<FilterPath.srcA, FilterPattern.everyPath>>,
           <<FilterPattern.packageQuestion>>, <<FilterPath.rootConfig>>,
           <<FilterPath.packageConfig>>, <<FilterPath.rootBuildConfig>>,
           <<FilterPath.packageBuildConfig>>}]
  /\ output = NotCalled

IgnoreSpec ==
  IgnoreInit
  /\ [][ShouldIgnoreFile \/ ShouldIgnoreTsConfig]_vars

\* ------------------------------------------------- utils/config.ts
\* JavaScript values, each kind a record of its own
Num(n) == [number |-> n]
Bool(b) == [boolean |-> b]
Str(s) == [string |-> s]
Arr(a) == [array |-> a]
undefined == [undefined |-> TRUE]
null == [null |-> TRUE]

\* the value as a condition
Truthy(v) ==
  CASE "number" \in DOMAIN v -> v.number # 0
    [] "boolean" \in DOMAIN v -> v.boolean
    [] "string" \in DOMAIN v -> v.string # ""
    [] "array" \in DOMAIN v -> TRUE
    [] OTHER -> FALSE

\* an object is a function from its own property names; object.key
EmptyObject == [key \in {} |-> undefined]
Get(object, key) == IF key \in DOMAIN object THEN object[key] ELSE undefined

\* { ...a, ...b }: every own property of b, whatever its value, over a's
Spread(a, b) ==
  [key \in DOMAIN a \cup DOMAIN b |-> IF key \in DOMAIN b THEN b[key] ELSE a[key]]

\* parseInt, for the texts the environment of the model holds; NaN for a
\* text without a leading number
parseInt(text) ==
  CASE text = "200" -> Num(200)
    [] text = "300" -> Num(300)
    [] OTHER -> [nan |-> TRUE]

\* DEFAULT_CONFIG
DEFAULT_CONFIG ==
  [maxCacheSize |-> Num(100),
   debounceMs |-> Num(500),
   maxConcurrentQueries |-> Num(10),
   healthCheckInterval |-> Num(30000),
   autoRestartOnCrash |-> Bool(TRUE),
   fallbackToDirectTsc |-> Bool(TRUE),
   enableIncrementalMode |-> Bool(TRUE),
   enablePersistentCache |-> Bool(FALSE),
   autoDetectWorkspaces |-> Bool(TRUE),
   ignorePatterns |-> Arr(DEFAULT_IGNORE_PATTERNS)]

\* process.env: a variable that is not set is no property of it
EnvOf(env, variable) == IF variable \in DOMAIN env THEN Str(env[variable]) ELSE undefined

\* fileConfig: the parsed .ts-diagnostics.json, {} when the file is missing
\* or is not JSON
fileConfigOf(file) == IF file.state = "ok" THEN file.json ELSE EmptyObject

\* loadConfig(projectRoot), for the workspace, the .ts-diagnostics.json and
\* the environment found there
loadConfig(in) ==
  LET fileConfig == fileConfigOf(in.file)
      \* the envConfig literal: four properties, always
      envConfig ==
        [maxCacheSize |->
           IF Truthy(EnvOf(in.env, "TS_DIAG_MAX_CACHE_SIZE"))
           THEN parseInt(in.env["TS_DIAG_MAX_CACHE_SIZE"]) ELSE undefined,
         debounceMs |->
           IF Truthy(EnvOf(in.env, "TS_DIAG_DEBOUNCE_MS"))
           THEN parseInt(in.env["TS_DIAG_DEBOUNCE_MS"]) ELSE undefined,
         enableIncrementalMode |->
           IF EnvOf(in.env, "TS_DIAG_INCREMENTAL") = Str("true") THEN Bool(TRUE)
           ELSE undefined,
         autoDetectWorkspaces |->
           IF EnvOf(in.env, "TS_DIAG_AUTO_DETECT") = Str("false") THEN Bool(FALSE)
           ELSE undefined]
      merged == Spread(Spread(Spread([projectRoot |-> Str(Root), tsConfigs |-> Str("")],
                                     DEFAULT_CONFIG), fileConfig), envConfig)
      userPatterns == Get(fileConfig, "ignorePatterns")
      config == IF Truthy(userPatterns) \/ Truthy(Get(envConfig, "ignorePatterns"))
                THEN [merged EXCEPT !["ignorePatterns"] =
                        Arr(DEFAULT_IGNORE_PATTERNS \o userPatterns.array)]
                ELSE merged
      shouldAutoDetect == config["autoDetectWorkspaces"] # Bool(FALSE)
      workspace == detectWorkspace(in.ws)
  IN IF ~shouldAutoDetect THEN Returned(config)
     ELSE IF Threw(workspace) THEN workspace
     ELSE IF Len(workspace.packages) > 0
     THEN Returned([config EXCEPT !["tsConfigs"] = Arr(workspace.packages)])
     ELSE Returned([config EXCEPT !["tsConfigs"] = Str(join(Root, "tsconfig.json"))])

\* normalizeTsConfigs
normalizeTsConfigs(tsConfigs) ==
  LET \* tsConfigs.replace('/tsconfig.json', ''), for the one path loadConfig
      \* stores as a string
      WithoutTsconfigJson(path) ==
        IF path = join(Root, "tsconfig.json") THEN Root ELSE path
  IN IF "string" \in DOMAIN tsConfigs
     THEN <<[configPath |-> tsConfigs.string, name |-> "root",
             rootDir |-> WithoutTsconfigJson(tsConfigs.string)]>>
     ELSE tsConfigs.array

\* existsSync(configPath)
existsSyncConfig(ws, configPath) ==
  \/ configPath = join(Root, "tsconfig.json") /\ ws.rootTsconfig
  \/ \E k \in 1..Len(ws.dirs) :
       /\ configPath = join(DirPath(ws.dirs[k].dir), "tsconfig.json")
       /\ ws.dirs[k].tsconfig

\* validateConfig
validateConfig(ws, config) ==
  IF ~Truthy(config["projectRoot"]) THEN Thrown("projectRoot is required")
  ELSE IF ~Truthy(config["tsConfigs"]) THEN Thrown("tsConfigs is required")
  ELSE LET tsConfigs == normalizeTsConfigs(config["tsConfigs"])
       IN IF Len(tsConfigs) = 0 THEN Thrown("No valid TypeScript configs found")
          ELSE IF \E k \in 1..Len(tsConfigs) : ~existsSyncConfig(ws, tsConfigs[k].configPath)
          THEN Thrown("tsconfig not found")
          ELSE Returned(undefined)

\* main of index.ts up to watchManager.start(): the process exits with 1
\* when loadConfig or validateConfig raises; else the manager is constructed
\* for the configs (cacheSizeMB = 100 for an undefined maxCacheSize) and
\* start() opens a session for each config whose file exists
main(in) ==
  LET loaded == loadConfig(in)
      config == loaded.returned
      tsConfigs == normalizeTsConfigs(config["tsConfigs"])
  IN IF Threw(loaded) THEN [exit |-> 1]
     ELSE IF Threw(validateConfig(in.ws, config)) THEN [exit |-> 1]
     ELSE [configs |-> tsConfigs,
           cacheSizeMB |-> IF config["maxCacheSize"] = undefined THEN Num(100)
                           ELSE config["maxCacheSize"],
           ignorePatterns |-> IF Truthy(config["ignorePatterns"])
                              THEN config["ignorePatterns"] ELSE Arr(<<>>),
           watched |-> SelectSeq(tsConfigs, LAMBDA c :
                         existsSyncConfig(in.ws, c.configPath))]

\* --------------------------------------------- the configuration loaded
\* the tsConfigs of the README's manual configuration
ManualConfigs ==
  <<[configPath |-> join(DirPath(PackageDir.a), "tsconfig.json"), name |-> "@myapp/app",
     rootDir |-> DirPath(PackageDir.a)],
    [configPath |-> join(DirPath(PackageDir.b), "tsconfig.json"), name |-> "@myapp/server",
     rootDir |-> DirPath(PackageDir.b)]>>

\* await loadConfig(projectRoot)
LoadConfig ==
  /\ output = NotCalled
  /\ output' = [op |-> "loadConfig", result |-> loadConfig(input)]
  /\ UNCHANGED <<setup, input, watchers, diagnosticsByConfig, cache, isActive,
                 lastCompilation, sessions, now, nEvents, diagnosed>>

\* main()
Main ==
  /\ output = NotCalled
  /\ output' = [op |-> "main", result |-> main(input)]
  /\ UNCHANGED <<setup, input, watchers, diagnosticsByConfig, cache, isActive,
                 lastCompilation, sessions, now, nEvents, diagnosed>>

\* .ts-diagnostics.json, process.env, and the workspaces without rush.json
\* and lerna.json whose packages each have a package.json with a name
ConfigInit ==
  LET ConfigFiles ==
      {Absent, Malformed,
       [state |-> "ok", json |-> EmptyObject],
       [state |-> "ok", json |-> [maxCacheSize |-> Num(50)]],
       [state |-> "ok", json |-> [maxCacheSize |-> Num(50), debounceMs |-> Num(250),
                                  enableIncrementalMode |-> Bool(FALSE),
                                  autoDetectWorkspaces |-> Bool(FALSE)]],
       [state |-> "ok", json |-> [ignorePatterns |-> Arr(<<>>)]],
       [state |-> "ok", json |-> [ignorePatterns |-> Arr(<<FilterPattern.srcStarTs,
                                                        FilterPath.distA>>)]],
       [state |-> "ok", json |-> [ignorePatterns |-> null]],
       [state |-> "ok", json |-> [projectRoot |-> Str(Root), tsConfigs |-> Arr(ManualConfigs)]],
       [state |-> "ok", json |-> [projectRoot |-> Str(Root), tsConfigs |-> Arr(ManualConfigs),
                                  autoDetectWorkspaces |-> Bool(FALSE)]]}
      Environments ==
      {EmptyObject,
       [TS_DIAG_MAX_CACHE_SIZE |-> "200", TS_DIAG_DEBOUNCE_MS |-> "300",
        TS_DIAG_INCREMENTAL |-> "true", TS_DIAG_AUTO_DETECT |-> "true"],
       [TS_DIAG_AUTO_DETECT |-> "false"],
       [TS_DIAG_INCREMENTAL |-> "false"],
       [TS_DIAG_MAX_CACHE_SIZE |-> ""]}
      ConfigWorkspaces ==
      {ws \in Workspaces :
         /\ ws.rush = Absent /\ ws.lerna = Absent
         /\ ws.packageJson \in {Absent, Malformed}
         /\ ws.pnpm \in {Absent, [state |-> "ok", packages |-> <<"packages/*">>]}
         /\ \A k \in 1..Len(ws.dirs) : "name" \in DOMAIN ws.dirs[k].manifest}
  IN /\ Unused
     /\ input \in [ws : ConfigWorkspaces, file : ConfigFiles, env : Environments]
     /\ output = NotCalled

ConfigSpec ==
  ConfigInit
  /\ [][LoadConfig \/ Main]_vars

\* ------------------------------------------- the conversion applied
\* convertDiagnostic(diagnostic)
ConvertDiagnostic ==
  /\ output = NotCalled
  /\ output' = [op |-> "convertDiagnostic", result |-> convertDiagnostic(input)]
  /\ UNCHANGED <<setup, input, watchers, diagnosticsByConfig, cache, isActive,
                 lastCompilation, sessions, now, nEvents, diagnosed>>

\* convertDiagnosticCategory(diagnostic.category)
ConvertDiagnosticCategory ==
  /\ output = NotCalled
  /\ output' = [op |-> "convertDiagnosticCategory",
                result |-> convertDiagnosticCategory(input.category)]
  /\ UNCHANGED <<setup, input, watchers, diagnosticsByConfig, cache, isActive,
                 lastCompilation, sessions, now, nEvents, diagnosed>>

\* a ts.Diagnostic with or without a source file, at every position from
\* line 0, character 0 on, of every category code from -1 on
ConvertInit ==
  /\ Unused
  /\ input \in [file : Files \cup {Undefined}, category : -1..MaxCategory,
                line : 0..MaxPosition, character : 0..MaxPosition, code : {2322}]
  /\ output = NotCalled

ConvertSpec ==
  ConvertInit
  /\ [][ConvertDiagnostic \/ ConvertDiagnosticCategory]_vars

\* ------------------------------------------- the manager constructed
\* getPackages()
GetPackages ==
  /\ output = NotCalled
  /\ output' = [op |-> "getPackages", result |-> getPackages]
  /\ UNCHANGED <<setup, input, watchers, diagnosticsByConfig, cache, isActive,
                 lastCompilation, sessions, now, nEvents, diagnosed>>

\* getPackageDiagnostics(packageName)
GetPackageDiagnostics(packageName) ==
  /\ output = NotCalled
  /\ output' = [op |-> "getPackageDiagnostics", packageName |-> packageName,
                result |-> getPackageDiagnostics(packageName)]
  /\ UNCHANGED <<setup, input, watchers, diagnosticsByConfig, cache, isActive,
                 lastCompilation, sessions, now, nEvents, diagnosed>>

\* new TypeScriptWatchManager(configs) for a list of at most MaxProjects
\* projects, each with a name, without one (TSProjectConfig.name is
\* optional) or with the empty name
PackagesInit ==
  /\ configs \in UNION {[1..n -> {App, Lib, [configPath |-> Build.configPath],
                                  [configPath |-> Gone.configPath, name |-> ""]}] :
                        n \in 0..MaxProjects}
  /\ existing = {} /\ reports = {} /\ failing = {} /\ ignorePatterns = <<>>
  /\ cache = NewCache(0)
  /\ watchers = <<>>
  /\ diagnosticsByConfig = <<>>
  /\ isActive = FALSE
  /\ lastCompilation = -1
  /\ sessions = <<>>
  /\ now = 0
  /\ nEvents = 0
  /\ diagnosed = {}
  /\ input = NotCalled
  /\ output = NotCalled

PackagesSpec ==
  PackagesInit
  /\ [][\/ GetPackages
        \/ \E packageName \in Range(getPackages) \cup QueryNames :
             GetPackageDiagnostics(packageName)]_vars

\* ------------------------------------------------------- reading the state
ConfigPaths == {configs[i].configPath : i \in 1..Len(configs)}
ConvFiles == Files \cup {"unknown"}

HasBucket(store, configPath, f) ==
  MapHas(store, configPath) /\ MapHas(MapGet(store, configPath), f)
BucketOf(store, configPath, f) == MapGet(MapGet(store, configPath), f)

HasEntry(c, configPath, f) == MapHas(c.entries, CacheKey(configPath, f))
EntryOf(c, configPath, f) == MapGet(c.entries, CacheKey(configPath, f))

\* the diagnostics of a pass for file f, converted, in emission order
RECURSIVE ConvertedFor(_, _)
ConvertedFor(diagnostics, f) ==
  IF diagnostics = <<>> THEN <<>>
  ELSE LET d == convertDiagnostic(Head(diagnostics))
       IN (IF d.file = f THEN <<d>> ELSE <<>>) \o ConvertedFor(Tail(diagnostics), f)

IsEmptyResult(r) ==
  /\ r.diagnostics = <<>>
  /\ r.totalErrors = 0 /\ r.totalWarnings = 0
  /\ r.totalSuggestions = 0 /\ r.totalMessages = 0
  /\ r.cacheHit = FALSE

\* ------------------------------------------------------------------ claims

\* C1: replace-not-append. When a session delivers diagnostics for a file in
\* a pass, the file's bucket holds afterwards exactly the diagnostics of that
\* pass, not those of earlier passes as well.
C1_ReplaceNotAppend ==
  [][\A id \in 1..Len(sessions) : \A ds \in Passes :
       Pass(id, ds) =>
         \A f \in ConvFiles :
           LET configPath == configs[sessions[id].cfg].configPath
           IN (ConvertedFor(ds, f) # <<>>
               /\ HasBucket(diagnosticsByConfig', configPath, f))
              => BucketOf(diagnosticsByConfig', configPath, f) = ConvertedFor(ds, f)]_vars

\* C2: for every key (config path, file) that has a store bucket and a cache
\* entry, the cached diagnostics are the bucket's diagnostics.
C2_StoreCacheAgree ==
  \A configPath \in ConfigPaths : \A f \in QueryPaths :
    (HasBucket(diagnosticsByConfig, configPath, f) /\ HasEntry(cache, configPath, f))
      => EntryOf(cache, configPath, f) = BucketOf(diagnosticsByConfig, configPath, f)

C2_Witness ==
  \E configPath \in ConfigPaths : \E f \in QueryPaths :
    /\ HasBucket(diagnosticsByConfig, configPath, f)
    /\ HasEntry(cache, configPath, f)
    /\ Len(BucketOf(diagnosticsByConfig, configPath, f)) = 2
    /\ Len(sessions) = 2

\* every diagnostic of the pass is in the bucket of its file, and the last
\* one is in the cache entry of its file
Recorded(store, c, configPath, diagnostics) ==
  /\ \A k \in 1..Len(diagnostics) :
       LET d == convertDiagnostic(diagnostics[k])
       IN /\ HasBucket(store, configPath, d.file)
          /\ d \in Range(BucketOf(store, configPath, d.file))
  /\ diagnostics # <<>> =>
       LET d == convertDiagnostic(diagnostics[Len(diagnostics)])
       IN /\ HasEntry(c, configPath, d.file)
          /\ d \in Range(EntryOf(c, configPath, d.file))

\* C3: every diagnostic that a session delivers from the moment start() opens
\* it, the ones delivered while the session is created included, is recorded
\* in the project's bucket and written through to the cache; after one
\* project's session reported one error in all, getAllDiagnostics().totalErrors
\* is 1.
C3_EveryEventRecorded ==
  [][/\ \A id \in 1..Len(sessions) : \A ds \in Passes :
          Pass(id, ds) =>
            Recorded(diagnosticsByConfig', cache',
                     configs[sessions[id].cfg].configPath, ds)
     /\ \A first \in [1..Len(configs) -> Passes] :
          StartWith(first) =>
            /\ \A i \in 1..Len(configs) :
                 Recorded(diagnosticsByConfig', cache', configs[i].configPath,
                          first[i])
            /\ (Len(configs) = 1 /\ Len(sessions) = 0 /\ Len(first[1]) = 1
                /\ IsCompilerError(first[1][1]))
               => getAllDiagnosticsOf(diagnosticsByConfig', now').totalErrors = 1]_vars

\* C4: after a pass of a project's session that reports zero errors (no
\* compiler error and no diagnostic of category error in the pass), the
\* results for that project have totalErrors = 0.
C4_ZeroErrorPass ==
  [][\A id \in 1..Len(sessions) : \A ds \in Passes :
       (/\ Pass(id, ds)
        /\ \A k \in 1..Len(ds) :
             /\ ~IsCompilerError(ds[k])
             /\ convertDiagnostic(ds[k]).category # "error")
       => getPackageDiagnosticsOf(diagnosticsByConfig',
                                  configs[sessions[id].cfg].name,
                                  now').totalErrors = 0]_vars

\* C5: every result of getAllDiagnostics, getFileDiagnostics and
\* getPackageDiagnostics has totalErrors + totalWarnings + totalSuggestions
\* + totalMessages = diagnostics.length.
C5_CountsSumToLength ==
  \A r \in {getAllDiagnostics}
           \cup {getFileDiagnostics(p) : p \in QueryPaths}
           \cup {getPackageDiagnostics(n) :
                   n \in {configs[i].name : i \in 1..Len(configs)}} :
    r.totalErrors + r.totalWarnings + r.totalSuggestions + r.totalMessages
      = Len(r.diagnostics)

C5_Witness ==
  /\ Len(getAllDiagnostics.diagnostics) = 2
  /\ getAllDiagnostics.totalErrors = 1
  /\ getAllDiagnostics.totalWarnings = 1
  /\ Len(getFileDiagnostics("/src/a.ts").diagnostics) = 2

\* C6: for a file path for which no diagnostic was ever delivered,
\* getFileDiagnostics returns no diagnostics, zero counts and cacheHit false.
C6_NeverDiagnosedIsEmpty ==
  \A p \in QueryPaths \ diagnosed : IsEmptyResult(getFileDiagnostics(p))

C6_Witness ==
  /\ cache.entries # <<>>
  /\ "/src/a.ts" \notin diagnosed
  /\ ~IsEmptyResult(getFileDiagnostics("unknown"))

\* the cache entry of (configPath, f) that has not expired, if any
Unexpired(configPath, f) ==
  SelectSeq(cache.entries,
            LAMBDA e : e.k = CacheKey(configPath, f) /\ now - e.start <= TTL)

\* C7: getFileDiagnostics(path) returns the concatenation, in the order of
\* the configured projects, of the unexpired cache entries keyed (project,
\* path); without such an entry it returns an empty result with cacheHit
\* false, also when the store holds a bucket for the file.
C7_FileQueryFromCacheOnly ==
  \A p \in QueryPaths :
    LET r == getFileDiagnostics(p)
        fromCache == Flatten([i \in 1..Len(configs) |->
                       Flatten([k \in 1..Len(Unexpired(configs[i].configPath, p)) |->
                                  Unexpired(configs[i].configPath, p)[k].v])])
    IN /\ r.diagnostics = fromCache
       /\ r.source = p
       /\ (\A i \in 1..Len(configs) : Unexpired(configs[i].configPath, p) = <<>>)
            => IsEmptyResult(r)

\* an expired entry, and an evicted one, with the bucket still in the store
C7_Witness ==
  \E configPath \in ConfigPaths :
    /\ HasBucket(diagnosticsByConfig, configPath, "/src/a.ts")
    /\ HasBucket(diagnosticsByConfig, configPath, "unknown")
    /\ HasEntry(cache, configPath, "/src/a.ts")
    /\ ~HasEntry(cache, configPath, "unknown")
    /\ IsEmptyResult(getFileDiagnostics("/src/a.ts"))
    /\ IsEmptyResult(getFileDiagnostics("unknown"))

\* C8: getPackageDiagnostics(name) returns null exactly when no configured
\* project has that name; for a configured project it returns a result, also
\* when the project has no diagnostics or its session was never opened.
C8_PackageNullIffUnknown ==
  \A n \in QueryNames :
    /\ (getPackageDiagnostics(n) = Null) <=> (\A i \in 1..Len(configs) : configs[i].name # n)
    /\ (\E i \in 1..Len(configs) : configs[i].name = n) =>
         /\ getPackageDiagnostics(n).source = n
         /\ getPackageDiagnostics(n).diagnostics
              = getAllDiagnosticsForConfig(
                  diagnosticsByConfig,
                  configs[CHOOSE i \in 1..Len(configs) :
                            /\ configs[i].name = n
                            /\ \A j \in 1..(i - 1) : configs[j].name # n].configPath)

\* a configured project without diagnostics beside one with diagnostics
C8_Witness ==
  /\ getPackageDiagnostics("app") # Null
  /\ getPackageDiagnostics("app").diagnostics = <<>>
  /\ getPackageDiagnostics("lib") # Null
  /\ getPackageDiagnostics("lib").diagnostics # <<>>
  /\ getPackageDiagnostics("missing") = Null

\* a step that changes the store or the entries of the cache and nothing
\* else, as the steps of clearFileDiagnostics and clearAllDiagnostics do
\* when there is something to clear
OnlyDiagnosticsChange ==
  /\ UNCHANGED <<setup, call, watchers, isActive, lastCompilation, sessions, now,
                 nEvents, diagnosed>>
  /\ cache'.hits = cache.hits /\ cache'.misses = cache.misses
  /\ <<diagnosticsByConfig, cache>>' # <<diagnosticsByConfig, cache>>

\* the cache entries whose key is not that of file f in any project
EntriesOfOtherFiles(c, f) ==
  SelectSeq(c.entries,
            LAMBDA e : \A configPath \in ConfigPaths : e.k # CacheKey(configPath, f))

\* C9: after clearFileDiagnostics(path) no project has a bucket for path and
\* the cache has no entry for (project, path), getFileDiagnostics(path) is
\* empty and getAllDiagnostics() has no diagnostic of that file; the buckets
\* and the cache entries of the other files are unchanged.
C9_ClearFileFrame ==
  [][OnlyDiagnosticsChange => \A p \in QueryPaths :
       ClearFileDiagnostics(p) =>
         /\ \A configPath \in ConfigPaths :
              /\ ~HasBucket(diagnosticsByConfig', configPath, p)
              /\ ~HasEntry(cache', configPath, p)
         /\ IsEmptyResult(getFileDiagnosticsOf(cache', p, now'))
         /\ \A d \in Range(getAllDiagnosticsOf(diagnosticsByConfig', now').diagnostics) :
              d.file # p
         /\ \A configPath \in ConfigPaths : \A f \in QueryPaths \ {p} :
              /\ HasBucket(diagnosticsByConfig', configPath, f)
                   = HasBucket(diagnosticsByConfig, configPath, f)
              /\ HasBucket(diagnosticsByConfig, configPath, f) =>
                   BucketOf(diagnosticsByConfig', configPath, f)
                     = BucketOf(diagnosticsByConfig, configPath, f)
         /\ EntriesOfOtherFiles(cache', p) = EntriesOfOtherFiles(cache, p)]_vars

\* one file cleared in both projects of which one had lost its cache entry,
\* the other file kept
C9_Witness ==
  /\ Len(configs) = 2
  /\ diagnosed = {"/src/a.ts", "unknown"}
  /\ nEvents = MaxEvents
  /\ \A configPath \in ConfigPaths :
       /\ MapHas(diagnosticsByConfig, configPath)
       /\ ~HasBucket(diagnosticsByConfig, configPath, "/src/a.ts")
       /\ ~HasEntry(cache, configPath, "/src/a.ts")
  /\ \E configPath \in ConfigPaths :
       /\ HasBucket(diagnosticsByConfig, configPath, "unknown")
       /\ HasEntry(cache, configPath, "unknown")
  /\ cache.evictions > 0

AllEmptyIn(store, c, t) ==
  /\ CacheStats(c).size = 0
  /\ \A i \in 1..Len(store) : store[i].v = <<>>
  /\ getAllDiagnosticsOf(store, t).diagnostics = <<>>
  /\ \A p \in QueryPaths : IsEmptyResult(getFileDiagnosticsOf(c, p, t))


\* C10: after clearAllDiagnostics() every project index is empty and the
\* cache has no entry, so getAllDiagnostics() has no diagnostics,
\* getCacheStats().size is 0 and getFileDiagnostics(p) is empty for every p,
\* and this lasts until the next diagnostic event; clearAllDiagnostics()
\* leaves the sessions and the active flag as they are.
C10_ClearAllEmpties ==
  [][/\ (OnlyDiagnosticsChange /\ ClearAllDiagnostics) =>
          /\ AllEmptyIn(diagnosticsByConfig', cache', now')
          /\ UNCHANGED <<sessions, watchers, isActive>>
     /\ (nEvents' = nEvents /\ AllEmptyIn(diagnosticsByConfig, cache, now)) =>
          AllEmptyIn(diagnosticsByConfig', cache', now')]_vars

\* everything recorded was cleared, the sessions are open
C10_Witness ==
  /\ AllEmptyIn(diagnosticsByConfig, cache, now)
  /\ nEvents = MaxEvents
  /\ cache.evictions = MaxEvents
  /\ isActive
  /\ \E id \in 1..Len(sessions) : sessions[id].open

\* the sessions that a step creates for configs[i]
NewSessionsOf(i) ==
  {id \in (Len(sessions) + 1)..Len(sessions') : sessions'[id].cfg = i}

\* C11: stop() is idempotent. Every stop() leaves the manager inactive, and a
\* stop() on an inactive manager (a second stop(), or a stop() before any
\* start()) changes no state, closes no session and emits no 'stopped' event.
C11_StopIdempotent ==
  [][Stop =>
       /\ ~isActive'
       /\ stopEmitted(isActive') = <<>>
       /\ ~isActive => (UNCHANGED vars /\ stopEmitted(isActive) = <<>>)]_vars

\* stopped after a start that opened a session for one project of two
C11_Witness ==
  /\ ~isActive
  /\ ExistingConfigs # 1..Len(configs)
  /\ Len(sessions) = 1
  /\ ~sessions[1].open
  /\ watchers = <<>>

\* C12: after stop() every session that a start() opened is closed and the
\* session table is empty, also when two configs share a config path.
C12_StopClosesAll ==
  [][Stop =>
       /\ watchers' = <<>>
       /\ \A id \in 1..Len(sessions') : ~sessions'[id].open]_vars

\* C13: a start() in which no session creation raises gives a project whose
\* config file is missing no session and no index, and gives every project
\* whose config file exists exactly one open session and an index, wherever
\* the missing one stands in the list.
C13_MissingConfigSkipped ==
  [][\A first \in [1..Len(configs) -> Passes] :
       (StartWith(first) /\ ~startRaises) =>
         \A i \in 1..Len(configs) :
           LET configPath == configs[i].configPath
           IN IF configPath \in existing
              THEN /\ Cardinality(NewSessionsOf(i)) = 1
                   /\ \A id \in NewSessionsOf(i) : sessions'[id].open
                   /\ MapHas(watchers', configPath)
                   /\ MapHas(diagnosticsByConfig', configPath)
              ELSE /\ NewSessionsOf(i) = {}
                   /\ ~MapHas(watchers', configPath)
                   /\ ~MapHas(diagnosticsByConfig', configPath)]_vars

\* the missing project first, the session of the project after it open
C13_Witness ==
  /\ configs = <<Gone, Build>>
  /\ isActive
  /\ Len(sessions) = 1
  /\ sessions[1] = [cfg |-> 2, open |-> TRUE]
  /\ MapKeys(watchers) = <<Build.configPath>>
  /\ MapKeys(diagnosticsByConfig) = <<Build.configPath>>

\* C14: when the creation of one project's session raises, start() skips that
\* project alone: every other project whose config file exists gets a
\* session, 'started' is emitted and start() returns normally.
C14_OpenFailureSkipped ==
  [][\A first \in [1..Len(configs) -> Passes] :
       StartWith(first) =>
         /\ \A i \in ExistingConfigs :
              ~createRaises(i) => Cardinality(NewSessionsOf(i)) = 1
         /\ startEmitted(isActive) = <<[event |-> "started", configs |-> Len(configs)]>>
         /\ ~startRaises]_vars

\* C15: a project whose config path the ignore filter ignores under the
\* configured patterns never has a session or an index.
C15_IgnoredNeverWatched ==
  \A i \in 1..Len(configs) :
    shouldIgnoreTsConfig(Chars(configs[i].configPath),
                         [k \in 1..Len(ignorePatterns) |-> Chars(ignorePatterns[k])])
        = Returned(TRUE) =>
      /\ \A id \in 1..Len(sessions) : sessions[id].cfg # i
      /\ ~MapHas(watchers, configs[i].configPath)
      /\ ~MapHas(diagnosticsByConfig, configs[i].configPath)

\* C16: a query changes neither the store, nor the cache (entries, order,
\* statistics), nor the sessions or the active flag. getFileDiagnostics is
\* the query that reaches the cache; hasErrors(filePath) goes through it.
C16_QueriesReadOnly ==
  [][\A p \in QueryPaths :
       GetFileDiagnostics(p) =>
         UNCHANGED <<diagnosticsByConfig, cache, watchers, sessions, isActive>>]_vars

\* C17: the cache holds at most capacity = floor(maxBytes / 200) entries, in
\* every reachable state.
C17_CacheBound ==
  CacheStats(cache).size <= cache.max

\* the entry of key is present and has not expired
Live(c, key, t) ==
  \E i \in 1..Len(c.entries) : c.entries[i].k = key /\ t - c.entries[i].start <= TTL

\* C18: getStats().hitRate is 0 while no get has occurred and hits / (hits +
\* misses) afterwards, 1/2 after one hit and one miss; a get is one hit when
\* the entry is present and unexpired and one miss otherwise, and no other
\* operation counts.
C18_HitRate ==
  [][/\ \A c \in {cache, cache'} :
          LET stats == CacheStats(c)
          IN /\ stats.hits + stats.misses = 0 =>
                  stats.hitRate = [num |-> 0, den |-> 1]
             /\ stats.hits + stats.misses > 0 =>
                  stats.hitRate = Quotient(stats.hits, stats.hits + stats.misses)
             /\ (stats.hits = 1 /\ stats.misses = 1) =>
                  stats.hitRate = [num |-> 1, den |-> 2]
     /\ \A key \in CacheKeys :
          CacheGetOp(key) =>
            IF Live(cache, key, now)
            THEN cache'.hits = cache.hits + 1 /\ cache'.misses = cache.misses
            ELSE cache'.hits = cache.hits /\ cache'.misses = cache.misses + 1
     /\ (\A key \in CacheKeys : ~CacheGetOp(key)) =>
          cache'.hits = cache.hits /\ cache'.misses = cache.misses]_vars

\* one hit, then one miss on the same entry after it expired
C18_Witness ==
  /\ configs = <<>>
  /\ cache.hits = 1 /\ cache.misses = 1
  /\ cache.evictions = 1 /\ cache.entries = <<>>
  /\ now = MaxTime
  /\ CacheStats(cache).hitRate = [num |-> 1, den |-> 2]

\* C19: LRU recency, for a capacity of at least one entry. A set makes its
\* key the most recently used, and so does a get that finds its entry; the
\* other keys keep their order; a set of a new key that finds the cache at
\* capacity removes the least recently used entry and no other. So a key
\* just read is not the next victim while another entry is there.
C19_LruRecency ==
  [][\A key \in CacheKeys :
       LET others == SelectSeq(Recency(cache), LAMBDA k : k # key)
           atCapacity == /\ ~MapHas(cache.entries, key)
                         /\ cache.max > 0
                         /\ Len(cache.entries) = cache.max
       IN /\ CacheSetOp(key) =>
               Recency(cache') = (IF atCapacity THEN Tail(others) ELSE others) \o <<key>>
          /\ CacheGetOp(key) =>
               IF Live(cache, key, now)
               THEN /\ Recency(cache') = others \o <<key>>
                    /\ Len(cache'.entries) > 1 => Head(Recency(cache')) # key
               ELSE Recency(cache') = others]_vars

\* a full cache of two, the older entry read (its age restarted at 1), then
\* a third key set: the entry read is still there
C19_Witness ==
  /\ cache.max = 2
  /\ Recency(cache) = <<CacheKey(App.configPath, "/src/a.ts"),
                        CacheKey(App.configPath, "/src/c.ts")>>
  /\ cache.entries[1].timestamp = 0 /\ cache.entries[1].start = 1
  /\ cache.entries[2].timestamp = 2
  /\ cache.hits = 1 /\ cache.misses = 0
  /\ cache.evictions = 1

\* C20: get returns no entry for which more than the TTL has passed since it
\* was set, however often it was read in between.
C20_FixedTTL ==
  \A i \in 1..Len(cache.entries) :
    now - cache.entries[i].timestamp > TTL
      => ~CacheGetFound(cache, cache.entries[i].k, now)

\* ---------------------------------------------------- workspace detection
\* the first marker present, in the order pnpm-workspace.yaml, "workspaces"
\* field of package.json, rush.json, lerna.json
FirstMarker(ws) ==
  IF ws.pnpm # Absent THEN "pnpm"
  ELSE IF "workspaces" \in DOMAIN ws.packageJson THEN "workspaces"
  ELSE IF ws.rush # Absent THEN "rush"
  ELSE IF ws.lerna # Absent THEN "lerna"
  ELSE "none"

\* C21: for a workspace whose root manifests parse, detection returns the
\* type of the first marker present in the order pnpm-workspace.yaml,
\* package.json "workspaces", rush.json, lerna.json, and the very result it
\* returns when that marker is the only one (nothing of a later marker is
\* merged in); with no marker the result is the single root project.
C21_FirstMarkerWins ==
  LET \* the workspace with every marker but one taken away
      Alone(ws, marker) ==
        [ws EXCEPT !.pnpm = IF marker = "pnpm" THEN @ ELSE Absent,
                   !.packageJson = IF marker = "workspaces" THEN @ ELSE Absent,
                   !.rush = IF marker = "rush" THEN @ ELSE Absent,
                   !.lerna = IF marker = "lerna" THEN @ ELSE Absent]
      TypesOf(marker) ==
        CASE marker = "pnpm" -> {"pnpm"}
          [] marker = "workspaces" -> {"npm", "yarn"}
          [] marker = "rush" -> {"rush"}
          [] marker = "lerna" -> {"lerna"}
          [] marker = "none" -> {"single"}
      r == output.result
      m == FirstMarker(input)
  IN (/\ output.op = "detectWorkspace"
      /\ Malformed \notin {input.packageJson, input.rush, input.lerna}) =>
       /\ ~Threw(r)
       /\ r.type \in TypesOf(m)
       /\ r = detectWorkspace(Alone(input, m))
       /\ m = "none" =>
            /\ Len(r.packages) = 1
            /\ r.packages[1].configPath = join(Root, "tsconfig.json")

\* pnpm-workspace.yaml lists packages/*, package.json lists apps/* as
\* workspaces, and the result is of type pnpm with packages/a and packages/b
C21_Witness ==
  /\ output.op = "detectWorkspace"
  /\ "packages" \in DOMAIN input.pnpm
  /\ "workspaces" \in DOMAIN input.packageJson
  /\ input.packageJson.workspaces = <<"apps/*">>
  /\ input.rush # Absent /\ input.lerna # Absent
  /\ output.result.type = "pnpm"
  /\ Len(output.result.packages) = 2
  /\ \A k \in 1..2 : output.result.packages[k].rootDir # DirPath(PackageDir.c)

\* the packages the first marker locates: the directories whose package.json
\* its patterns find, or the project folders rush.json lists
LocatedPackages(ws) ==
  LET m == FirstMarker(ws)
  IN CASE m = "pnpm" ->
            IF "packages" \in DOMAIN ws.pnpm THEN glob(ws, ws.pnpm.packages) ELSE <<>>
       [] m = "workspaces" -> glob(ws, ws.packageJson.workspaces)
       [] m = "rush" ->
            [k \in 1..Len(ws.rush.projects) |->
               ws.dirs[DirOfFolder(ws, ws.rush.projects[k].projectFolder)]]
       [] m = "lerna" ->
            glob(ws, IF "packages" \in DOMAIN ws.lerna THEN ws.lerna.packages
                     ELSE <<"packages/*">>)
       [] m = "none" -> <<>>

\* C22 as stated: a matched multi-package workspace yields exactly one
\* ProjectConfig per located package that has a sibling tsconfig.json, and
\* none for a package lacking one.
C22_OnePerConfiguredPackage ==
  (/\ output.op = "detectWorkspace"
   /\ ~Threw(output.result)
   /\ output.result.type # "single") =>
    LET located == LocatedPackages(input)
        withConfig == {DirPath(located[k].dir) :
                         k \in {j \in 1..Len(located) : located[j].tsconfig}}
        packages == output.result.packages
    IN /\ {packages[k].rootDir : k \in 1..Len(packages)} = withConfig
       /\ Len(packages) = Cardinality(withConfig)

\* C22: a matched multi-package workspace yields exactly one ProjectConfig
\* per located package that has a sibling tsconfig.json and, where the
\* detector reads the package's package.json, a package.json that parses;
\* it yields none for any other package.
C22_OnePerReadablePackage ==
  (/\ output.op = "detectWorkspace"
   /\ ~Threw(output.result)
   /\ output.result.type # "single") =>
    LET located == LocatedPackages(input)
        readable(e) == FirstMarker(input) = "rush" \/ e.manifest.state = "ok"
        withConfig == {DirPath(located[k].dir) :
                         k \in {j \in 1..Len(located) :
                                  located[j].tsconfig /\ readable(located[j])}}
        packages == output.result.packages
    IN /\ {packages[k].rootDir : k \in 1..Len(packages)} = withConfig
       /\ Len(packages) = Cardinality(withConfig)

\* two packages under ["packages/*"], packages/b without tsconfig.json: one
\* ProjectConfig, that of packages/a
C22_Witness ==
  /\ output.op = "detectWorkspace"
  /\ input.pnpm = Absent
  /\ "workspaces" \in DOMAIN input.packageJson
  /\ input.packageJson.workspaces = <<"packages/*">>
  /\ input.dirs[1].tsconfig /\ input.dirs[1].manifest.state = "ok"
  /\ ~input.dirs[2].tsconfig
  /\ Len(LocatedPackages(input)) = 2
  /\ Len(output.result.packages) = 1
  /\ output.result.packages[1].rootDir = DirPath(PackageDir.a)

\* C23: detection returns a result for every workspace, whichever manifest
\* is malformed.
C23_NeverAborts == output.op = "detectWorkspace" => ~Threw(output.result)

\* ------------------------------------------------------- the ignore filter
\* The glob semantics the filter documents (utils/cache.ts: "Supports: *, **,
\* ?, [abc], {a,b}", "** (match any number of directories)", "* (match
\* anything except /)", "? (match single character except /)"), the whole
\* path anchored.
\* the patterns without braces that a pattern with {a,b} stands for
RECURSIVE BraceExpand(_)
BraceExpand(globPattern) ==
  LET opening == {i \in 1..Len(globPattern) :
                    /\ globPattern[i] = "{"
                    /\ \E j \in (i + 1)..Len(globPattern) : globPattern[j] = "}"}
      open == CHOOSE i \in opening : \A k \in opening : i <= k
      closing == {j \in (open + 1)..Len(globPattern) : globPattern[j] = "}"}
      close == CHOOSE j \in closing : \A k \in closing : j <= k
      RECURSIVE SplitOnComma(_)
      SplitOnComma(str) ==
        LET commas == {k \in 1..Len(str) : str[k] = ","}
            first == CHOOSE k \in commas : \A j \in commas : k <= j
        IN IF commas = {} THEN {str}
           ELSE {SubSeq(str, 1, first - 1)}
                \cup SplitOnComma(SubSeq(str, first + 1, Len(str)))
  IN IF opening = {} THEN {globPattern}
     ELSE {SubSeq(globPattern, 1, open - 1) \o alternative \o rest :
             alternative \in SplitOnComma(SubSeq(globPattern, open + 1, close - 1)),
             rest \in BraceExpand(SubSeq(globPattern, close + 1, Len(globPattern)))}

RECURSIVE GlobFrom(_, _, _, _)
GlobFrom(g, i, str, p) ==
  IF i > Len(g) THEN p = Len(str) + 1
  ELSE IF g[i] = "*" /\ i < Len(g) /\ g[i + 1] = "*"
  THEN \E q \in p..(Len(str) + 1) : GlobFrom(g, i + 2, str, q)
  ELSE IF g[i] = "*"
  THEN \E q \in p..(Len(str) + 1) :
         /\ \A k \in p..(q - 1) : str[k] # "/"
         /\ GlobFrom(g, i + 1, str, q)
  ELSE IF g[i] = "?"
  THEN p <= Len(str) /\ str[p] # "/" /\ GlobFrom(g, i + 1, str, p + 1)
  ELSE p <= Len(str) /\ str[p] = g[i] /\ GlobFrom(g, i + 1, str, p + 1)

\* the path, its separators normalized, matches one of the patterns
MatchesSomePattern(path, patterns) ==
  \E k \in 1..Len(patterns) :
    \E g \in BraceExpand(patterns[k]) : GlobFrom(g, 1, NormalizeSeparators(path), 1)

\* C24: shouldIgnoreFile returns true under the default patterns for every
\* path with a node_modules directory segment, and for any patterns it
\* returns true exactly when the path matches some pattern under the
\* documented glob semantics, the whole path anchored.
C24_GlobSemantics ==
  LET \* the path has the directory segment node_modules
      HasNodeModulesSegment(path) ==
        \/ IncludesText(path, <<"/">> \o NodeModules \o <<"/">>)
        \/ SubSeq(path, 1, Len(NodeModules) + 1) = NodeModules \o <<"/">>
  IN output.op = "shouldIgnoreFile" =>
       /\ (/\ input.patterns = DEFAULT_IGNORE_PATTERNS
           /\ HasNodeModulesSegment(input.path))
            => output.result = Returned(TRUE)
       /\ output.result = Returned(MatchesSomePattern(input.path, input.patterns))

\* C25: shouldIgnoreTsConfig never ignores a project-config file at the
\* workspace root, whatever the patterns, and ignores a project-config file
\* elsewhere exactly when its path matches some ignore pattern.
C25_RootConfigExempt ==
  LET \* dirname(path) is the workspace root /ws
      AtWorkspaceRoot(path) ==
        /\ SubSeq(path, 1, 4) = <<"/", "w", "s", "/">>
        /\ \A k \in 5..Len(path) : path[k] # "/"
      \* the paths of project-config files among the paths of the model
      ProjectConfigPaths ==
        {FilterPath.rootConfig, FilterPath.rootBuildConfig,
         FilterPath.packageConfig, FilterPath.packageBuildConfig,
         FilterPath.nodeModulesConfig}
  IN (output.op = "shouldIgnoreTsConfig" /\ input.path \in ProjectConfigPaths) =>
       IF AtWorkspaceRoot(input.path) THEN output.result = Returned(FALSE)
       ELSE output.result = Returned(MatchesSomePattern(input.path, input.patterns))

\* ------------------------------------------------------ the configuration
\* C26: the ignorePatterns of the config loadConfig returns are the default
\* patterns followed by the user's patterns, whatever .ts-diagnostics.json
\* holds; every default pattern is among them.
C26_DefaultsKept ==
  (output.op = "loadConfig" /\ ~Threw(output.result)) =>
    LET effective == output.result.returned["ignorePatterns"]
        \* the ignorePatterns of .ts-diagnostics.json when they are a list
        supplied == Get(fileConfigOf(input.file), "ignorePatterns")
        UserPatterns == IF "array" \in DOMAIN supplied THEN supplied.array ELSE <<>>
    IN /\ "array" \in DOMAIN effective
       /\ \A k \in 1..Len(DEFAULT_IGNORE_PATTERNS) :
            DEFAULT_IGNORE_PATTERNS[k] \in Range(effective.array)
       /\ effective.array = DEFAULT_IGNORE_PATTERNS \o UserPatterns

\* C27: each of maxCacheSize, debounceMs, enableIncrementalMode and
\* autoDetectWorkspaces of the config loadConfig returns is the value of its
\* environment variable when that is set, else the value in
\* .ts-diagnostics.json when it has one, else the default.
C27_Precedence ==
  LET VariableOf ==
        [maxCacheSize |-> "TS_DIAG_MAX_CACHE_SIZE",
         debounceMs |-> "TS_DIAG_DEBOUNCE_MS",
         enableIncrementalMode |-> "TS_DIAG_INCREMENTAL",
         autoDetectWorkspaces |-> "TS_DIAG_AUTO_DETECT"]
      \* the value a variable of the environment stands for
      EnvironmentValue(text) ==
        CASE text = "true" -> Bool(TRUE)
          [] text = "false" -> Bool(FALSE)
          [] OTHER -> parseInt(text)
      \* the variable is set (to a text that is not empty)
      IsSet(env, variable) == Truthy(EnvOf(env, variable))
  IN (output.op = "loadConfig" /\ ~Threw(output.result)) =>
       \A field \in DOMAIN VariableOf :
         output.result.returned[field] =
           IF IsSet(input.env, VariableOf[field])
           THEN EnvironmentValue(input.env[VariableOf[field]])
           ELSE IF field \in DOMAIN fileConfigOf(input.file)
           THEN fileConfigOf(input.file)[field]
           ELSE DEFAULT_CONFIG[field]

\* C28: when .ts-diagnostics.json lists tsConfigs, loadConfig returns a
\* config with that list, and main constructs the manager for that list and
\* start() opens the sessions of those among them whose config file exists.
C28_ManualConfigsUsed ==
  "tsConfigs" \in DOMAIN fileConfigOf(input.file) =>
    /\ output.op = "loadConfig" =>
         /\ ~Threw(output.result)
         /\ output.result.returned["tsConfigs"] = fileConfigOf(input.file)["tsConfigs"]
    /\ (output.op = "main" /\ "exit" \notin DOMAIN output.result) =>
         /\ output.result.configs = ManualConfigs
         /\ output.result.watched =
              SelectSeq(ManualConfigs, LAMBDA c : existsSyncConfig(input.ws, c.configPath))

\* C29: when the project list holds one project whose config file is
\* missing, main does not exit the process and start() opens the sessions of
\* the other projects.
C29_BadProjectIsolated ==
  LET \* the project list loadConfig resolves to
      ProjectList == normalizeTsConfigs(loadConfig(input).returned["tsConfigs"])
      MissingProjects ==
        {k \in 1..Len(ProjectList) :
           ~existsSyncConfig(input.ws, ProjectList[k].configPath)}
  IN (/\ output.op = "main"
      /\ ~Threw(loadConfig(input))
      /\ Cardinality(MissingProjects) = 1) =>
       /\ "exit" \notin DOMAIN output.result
       /\ output.result.watched =
            SelectSeq(ProjectList, LAMBDA c : existsSyncConfig(input.ws, c.configPath))

\* ------------------------------------------------------------- getStatus
\* a count of the diagnostics stored, not of the files
RECURSIVE getTotalDiagnosticsStoredOf(_)
getTotalDiagnosticsStoredOf(store) ==
  IF store = <<>> THEN 0
  ELSE Len(Flatten(MapValues(Head(store).v))) + getTotalDiagnosticsStoredOf(Tail(store))

\* getTotalFilesWatched: the sum of diagnosticMap.size over the indexes
RECURSIVE getTotalFilesWatchedOf(_)
getTotalFilesWatchedOf(store) ==
  IF store = <<>> THEN 0
  ELSE Len(Head(store).v) + getTotalFilesWatchedOf(Tail(store))

\* getStatus()
getStatusOf(cfgs, store, active, last) ==
  [active |-> active,
   watchedConfigs |-> [i \in 1..Len(cfgs) |-> cfgs[i].configPath],
   watchedFiles |-> getTotalFilesWatchedOf(store),
   lastCompilation |-> last,
   projectRoot |-> IF Len(cfgs) > 0 /\ "rootDir" \in DOMAIN cfgs[1]
                   THEN cfgs[1].rootDir ELSE "",
   mode |-> IF Len(cfgs) > 1 THEN "monorepo" ELSE "single"]

getStatus == getStatusOf(configs, diagnosticsByConfig, isActive, lastCompilation)

C32_OneBasedPosition ==
  (output.op = "convertDiagnostic" /\ input.file # Undefined) =>
    /\ output.result.line = input.line + 1
    /\ output.result.column = input.character + 1
    /\ output.result.line >= 1 /\ output.result.column >= 1

\* C33: the category mapping is total onto {error, warning, suggestion,
\* message}: the codes 0, 1, 2, 3 map to error, warning, suggestion, message
\* and every other code maps to error.
C33_CategoryMapping ==
  output.op = "convertDiagnosticCategory" =>
    /\ output.result \in {"error", "warning", "suggestion", "message"}
    /\ output.result =
         (IF input.category \in 0..3
          THEN <<"error", "warning", "suggestion", "message">>[input.category + 1]
          ELSE "error")

\* a code above the enumeration was converted, to error
C33_Witness ==
  /\ output.op = "convertDiagnosticCategory"
  /\ input.category = 4
  /\ output.result = "error"

\* C36: the evictions statistic counts only the removals made to keep the
\* cache within capacity: a set that overwrites an existing key, delete,
\* clear and invalidateByPattern leave getStats().evictions as it was.
C36_EvictionsForCapacityOnly ==
  [][(\/ \E key \in CacheKeys : MapHas(cache.entries, key) /\ CacheSetOp(key)
      \/ \E key \in CacheKeys : CacheDeleteOp(key)
      \/ CacheClearOp
      \/ \E matching \in SUBSET CacheKeys : CacheInvalidateOp(matching))
       => CacheStats(cache').evictions = CacheStats(cache).evictions]_vars

\* -------------------------------------------------------------- start()
\* C34: start() on an active manager opens no session, leaves every project
\* index and the session table as they are and emits no 'started' event;
\* no step taken while the manager stays active opens a session, and the
\* start() that activates the manager opens at most one session per
\* configured project.
C34_StartWhileActive ==
  /\ [](isActive =>
          /\ ~ENABLED (Start /\ <<sessions, diagnosticsByConfig, watchers>>'
                                  # <<sessions, diagnosticsByConfig, watchers>>)
          /\ startEmitted(isActive) = <<>>)
  /\ [][(isActive /\ isActive') => sessions' = sessions]_vars
  /\ [][(~isActive /\ isActive') =>
          \A i \in 1..Len(configs) :
            Cardinality({id \in (Len(sessions) + 1)..Len(sessions') :
                           sessions'[id].cfg = i}) <= 1]_vars

\* an active manager with a session for each of two projects and a bucket
\* in an index, where a second start() would have something to reset
C34_Witness ==
  /\ isActive
  /\ Len(configs) = 2 /\ Len(sessions) = 2
  /\ \E p \in ConfigPaths : \E f \in ConvFiles : HasBucket(diagnosticsByConfig, p, f)

\* ------------------------------------------------- onWatchStatusChange
\* C31: on a pass-complete signal ("Found N errors. Watching for file
\* changes.") for project P, onWatchStatusChange sets lastCompilation to the
\* current time, changes nothing else, and emits exactly one
\* 'compilation-complete' event whose errorCount and warningCount are the
\* numbers of error and warning diagnostics in the buckets of P's index
\* alone; on any other status message it emits nothing and leaves
\* lastCompilation as it is.  This holds for a call in any state between
\* two operations and for every call a compiler pass makes, in start() and
\* after it.
C31_CompilationComplete ==
  LET RECURSIVE Sum(_, _, _)
      \* the diagnostics of a category in the buckets of an index
      Sum(store, configPath, category) ==
        LET Count(files) ==
              IF files = {} THEN 0
              ELSE LET f == CHOOSE g \in files : TRUE
                   IN CountCategory(BucketOf(store, configPath, f), category)
                      + Sum([store EXCEPT ![MapIndex(store, configPath)].v =
                               MapDelete(@, f)], configPath, category)
        IN Count({f \in ConvFiles : HasBucket(store, configPath, f)})
      Holds(c) ==
        LET after == onWatchStatusChange(c.m, c.config, c.messageText, now)
            emitted == onWatchStatusChangeEmitted(c.m, c.config, c.messageText, now)
            store == c.m.diagnosticsByConfig
        IN IF \E k \in 0..MaxEvents : c.messageText = MsgFound(k)
           THEN /\ after = [c.m EXCEPT !.lastCompilation = now]
                /\ emitted =
                     <<[event |-> "compilation-complete", config |-> c.config.name,
                        timestamp |-> now,
                        errorCount |-> Sum(store, c.config.configPath, "error"),
                        warningCount |-> Sum(store, c.config.configPath, "warning")]>>
           ELSE emitted = <<>> /\ after = c.m
      RECURSIVE startCalls(_, _, _)
      \* the calls the sessions created by start() make, from configs[i] on
      startCalls(m, i, first) ==
        IF i > Len(configs) \/ createRaises(i) THEN {}
        ELSE (IF configs[i].configPath \in existing
              THEN statusCalls([m EXCEPT !.sessions = Append(@, NewSession(i))],
                               Len(m.sessions) + 1, MsgStarting, first[i], now)
              ELSE {})
             \cup startCalls(startWatchingConfig(m, i, first[i], now), i + 1, first)
  IN /\ \A i \in 1..Len(configs) :
          \A messageText \in {MsgStarting, MsgChange} \cup {MsgFound(k) : k \in 0..MaxEvents} :
            Holds([m |-> Manager, config |-> configs[i], messageText |-> messageText])
     /\ \A id \in 1..Len(sessions) : \A ds \in Passes :
          sessions[id].open =>
            \A c \in statusCalls(Manager, id, MsgChange, ds, now) : Holds(c)
     /\ ~isActive =>
          \A first \in [1..Len(configs) -> Passes] :
            \A c \in startCalls(Manager, 1, first) : Holds(c)

\* two projects with one warning each in their buckets, a pass completed at
\* the current time, and the event of a pass-complete signal for the first
\* project counts one warning
C31_Witness ==
  /\ Len(configs) = 2
  /\ \A i \in 1..2 :
       CountCategory(getAllDiagnosticsForConfig(diagnosticsByConfig,
                                                configs[i].configPath), "warning") = 1
  /\ lastCompilation = now /\ now > 0
  /\ onWatchStatusChangeEmitted(Manager, configs[1], MsgFound(0), now)[1].warningCount = 1

\* --------------------------------------------- the cache and the store
\* C35: in every state that start, stop, start again, diagnostic events and
\* clears lead to, every unexpired cache entry (project, file) has a store
\* bucket with the same key and the same diagnostics; getFileDiagnostics(path)
\* returns no diagnostic that getAllDiagnostics() lacks, and hasErrors(path)
\* implies hasErrors().
C35_CacheWithinStore ==
  /\ \A configPath \in ConfigPaths : \A f \in QueryPaths :
       Unexpired(configPath, f) # <<>> =>
         /\ HasBucket(diagnosticsByConfig, configPath, f)
         /\ EntryOf(cache, configPath, f) = BucketOf(diagnosticsByConfig, configPath, f)
  /\ \A p \in QueryPaths :
       /\ Range(getFileDiagnostics(p).diagnostics)
            \subseteq Range(getAllDiagnostics.diagnostics)
       /\ getFileDiagnostics(p).totalErrors > 0 => getAllDiagnostics.totalErrors > 0

\* ------------------------------------------------------ project isolation
\* what the manager state after holds of the projects other than the one
\* kept under configPath is what the state before held: their indexes are
\* the same and so are their cache entries or, with evicting, their cache
\* entries are among those held before and some are missing only from a cache
\* that is full
OthersKept(before, after, configPath, evicting) ==
  LET EntriesUnder(c, q) ==
        {e \in Range(c.entries) : e.k \in {CacheKey(q, f) : f \in ConvFiles}}
  IN \A q \in ConfigPaths \ {configPath} :
       /\ MapHas(after.diagnosticsByConfig, q) = MapHas(before.diagnosticsByConfig, q)
       /\ MapHas(before.diagnosticsByConfig, q) =>
            MapGet(after.diagnosticsByConfig, q) = MapGet(before.diagnosticsByConfig, q)
       /\ IF evicting
          THEN /\ EntriesUnder(after.cache, q) \subseteq EntriesUnder(before.cache, q)
               /\ EntriesUnder(after.cache, q) # EntriesUnder(before.cache, q) =>
                    /\ before.cache.max > 0
                    /\ Len(after.cache.entries) = before.cache.max
          ELSE EntriesUnder(after.cache, q) = EntriesUnder(before.cache, q)

\* C37 as stated: a diagnostic event from project P's session changes only
\* P's index and the cache entries keyed under P's config path; the index
\* and the cache entries of every other project stay as they were, for a
\* single event in any state and for the events of a pass, whichever
\* session's pass comes next; every diagnostic in the bucket of file f has
\* file = f.
C37_ProjectIsolation ==
  /\ [](/\ \A configPath \in ConfigPaths : \A f \in ConvFiles :
             HasBucket(diagnosticsByConfig, configPath, f) =>
               \A d \in Range(BucketOf(diagnosticsByConfig, configPath, f)) :
                 d.file = f
        /\ \A i \in 1..Len(configs) : \A d \in reports :
             OthersKept(Manager, onDiagnostic(Manager, configs[i], d, now),
                        configs[i].configPath, FALSE))
  /\ [][(nEvents' # nEvents /\ isActive' = isActive) =>
          \A id \in 1..Len(sessions) : \A ds \in Passes :
            Pass(id, ds) =>
              OthersKept(Manager,
                         [Manager EXCEPT !.diagnosticsByConfig = diagnosticsByConfig',
                                         !.cache = cache'],
                         configs[sessions[id].cfg].configPath, FALSE)]_vars

\* C37: a diagnostic event from project P's session changes only P's index
\* and writes only cache entries keyed under P's config path; the index of
\* every other project stays as it was; a cache entry of another project is
\* never written and is removed only from a full cache (to make room for
\* P's entry); every diagnostic in the bucket of file f has file = f.
C37_IsolationUpToEviction ==
  /\ [](/\ \A configPath \in ConfigPaths : \A f \in ConvFiles :
             HasBucket(diagnosticsByConfig, configPath, f) =>
               \A d \in Range(BucketOf(diagnosticsByConfig, configPath, f)) :
                 d.file = f
        /\ \A i \in 1..Len(configs) : \A d \in reports :
             OthersKept(Manager, onDiagnostic(Manager, configs[i], d, now),
                        configs[i].configPath, TRUE))
  /\ [][(nEvents' # nEvents /\ isActive' = isActive) =>
          \A id \in 1..Len(sessions) : \A ds \in Passes :
            Pass(id, ds) =>
              OthersKept(Manager,
                         [Manager EXCEPT !.diagnosticsByConfig = diagnosticsByConfig',
                                         !.cache = cache'],
                         configs[sessions[id].cfg].configPath, TRUE)]_vars

\* two projects, each with a bucket for /src/a.ts that holds one diagnostic
\* and each with its cache entry: the event of the second project left the
\* first project's bucket and entry alone
C37_Witness ==
  /\ Len(configs) = 2 /\ Cardinality(ConfigPaths) = 2
  /\ nEvents = 2
  /\ \A configPath \in ConfigPaths :
       /\ HasBucket(diagnosticsByConfig, configPath, "/src/a.ts")
       /\ Len(BucketOf(diagnosticsByConfig, configPath, "/src/a.ts")) = 1
       /\ HasEntry(cache, configPath, "/src/a.ts")

\* ----------------------------------------------------------- getPackages
\* C38: every name that getPackages() returns is the name of a project that
\* can be queried: getPackageDiagnostics(n) is not null for each element n
\* of the list, whatever projects are configured, projects without a name
\* included.
C38_PackagesQueryable ==
  output.op = "getPackages" =>
    \A k \in 1..Len(output.result) :
      getPackageDiagnostics(output.result[k]) # Null

====
